---- MODULE Spec2Model ----
(***************************************************************************)
(* A model of telecodex's CodexStdioClient (src/telecodex/codex_client.py): *)
(* the subprocess supervisor, the line transport, the request correlator,  *)
(* the passive trackers and the turn engine, driven by calling threads.    *)
(*                                                                         *)
(* Text is a sequence of one-character-like tokens, " " being whitespace;  *)
(* a JSON message is a record with one field per key the client reads,     *)
(* an absent key being the empty value of its field.                       *)
(***************************************************************************)
EXTENDS Integers, Sequences, FiniteSets, TLC

\* ------------------------------------------------------------------ bounds
\* Lines the subprocesses write to their standard output over a whole run.
MaxLines == 6
\* Calls of the client's methods in a run.
MaxCalls == 3
\* Blank or unparseable lines that precede one message.
MaxJunk == 1

Threads == {"t1", "t2"}
NoThread == "none"

\* -------------------------------------------------------------------- text
Unknown == <<"Unknown app-server error">>
Placeholder == <<"No text response returned by app-server.">>

IsWs(c) == c = " "

RECURSIVE LStrip(_)
LStrip(s) == IF s # <<>> /\ IsWs(Head(s)) THEN LStrip(Tail(s)) ELSE s

RECURSIVE RStrip(_)
RStrip(s) ==
    IF s # <<>> /\ IsWs(s[Len(s)]) THEN RStrip(SubSeq(s, 1, Len(s) - 1)) ELSE s

\* str.strip()
Strip(s) == RStrip(LStrip(s))

\* ''.join(chunks)
RECURSIVE Join(_)
Join(chunks) == IF chunks = <<>> THEN <<>> ELSE Head(chunks) \o Join(Tail(chunks))

\* ---------------------------------------------------------------- messages
\* msg.get('id') of a message without an id.
NoId == 0

\* An error payload: absent key, JSON null, an object, or any other value.
\* message: its 'message' string; detail: the 'detail' string of the object
\* json.loads(message) yields (empty when message is no such JSON text);
\* info: its 'codexErrorInfo' string; str: str(payload) of a non-object.
AbsentErr ==
    [kind |-> "absent", message |-> <<>>, detail |-> <<>>, info |-> <<>>, str |-> <<>>]
NullErr == [AbsentErr EXCEPT !.kind = "null"]
DictErr == [AbsentErr EXCEPT !.kind = "dict"]
ErrMsg(m) == [DictErr EXCEPT !.message = m]
ErrDetail(m, d) == [DictErr EXCEPT !.message = m, !.detail = d]
ErrInfo(i) == [DictErr EXCEPT !.info = i]
ErrScalar(s) == [AbsentErr EXCEPT !.kind = "scalar", !.str = s]

\* params.rateLimits of an account/rateLimits/updated message, and a value of
\* the rate-limit mappings (isObj FALSE: a value that is not an object).
NoRateLimits == [isObj |-> FALSE, limitId |-> "", val |-> 0]
RateLimits(l, v) == [isObj |-> TRUE, limitId |-> l, val |-> v]
\* A mapping from limit ids to rate-limit objects; "" is the key None.
NoEntries == [k \in {} |-> NoRateLimits]

\* The 'result' of a response: absent key, an object, or any other value.
\* byId: result.rateLimitsByLimitId; single: result.rateLimits;
\* data: result.data (model descriptors).
AbsentResult ==
    [kind |-> "absent", threadId |-> "", turnId |-> "",
     byId |-> [isObj |-> FALSE, map |-> NoEntries], single |-> NoRateLimits,
     data |-> [isList |-> FALSE, items |-> <<>>]]
EmptyObj == [AbsentResult EXCEPT !.kind = "obj"]
ResultObj(th, tn) == [EmptyObj EXCEPT !.threadId = th, !.turnId = tn]
ScalarResult == [AbsentResult EXCEPT !.kind = "scalar"]
ByIdResult(m) == [EmptyObj EXCEPT !.byId = [isObj |-> TRUE, map |-> m]]
SingleResult(r) == [EmptyObj EXCEPT !.single = r]
\* An item of result.data.
ModelItem(m, i, d) == [isObj |-> TRUE, model |-> m, id |-> i, displayName |-> d]
DataResult(items) == [EmptyObj EXCEPT !.data = [isList |-> TRUE, items |-> items]]

\* params.turn of a turn/completed message.
NoTurn ==
    [isObj |-> FALSE, id |-> "", status |-> "", agentMessage |-> <<>>,
     error |-> AbsentErr]
\* params.msg.info of a codex/event/token_count message.
\* val and last: the values of two of its keys, 0 for a key it does not have.
NoInfo == [isObj |-> FALSE, val |-> 0, last |-> 0]
Info(v) == [NoInfo EXCEPT !.isObj = TRUE, !.val = v]
InfoLast(v, l) == [NoInfo EXCEPT !.isObj = TRUE, !.val = v, !.last = l]

NoParams ==
    [isObj |-> FALSE, turnId |-> "", deltaIsStr |-> FALSE, delta |-> <<>>,
     willRetry |-> "absent", error |-> AbsentErr, turn |-> NoTurn,
     rateLimits |-> NoRateLimits, msgIsObj |-> FALSE, info |-> NoInfo]
ObjParams == [NoParams EXCEPT !.isObj = TRUE]

\* One line of the subprocess's output. raw: "obj" a JSON object, "blank" an
\* empty line, "badjson" text that is not JSON, "nonobj" a JSON value that
\* is not an object, "eof" the end of the stream.
NoMsg ==
    [raw |-> "none", id |-> NoId, method |-> "", result |-> AbsentResult,
     error |-> AbsentErr, params |-> NoParams]
ObjMsg == [NoMsg EXCEPT !.raw = "obj"]
Eof == [NoMsg EXCEPT !.raw = "eof"]
Blank == [NoMsg EXCEPT !.raw = "blank"]
BadJson == [NoMsg EXCEPT !.raw = "badjson"]
NonObj == [NoMsg EXCEPT !.raw = "nonobj"]

Resp(i, r) == [ObjMsg EXCEPT !.id = i, !.result = r]
ErrResp(i, r, e) == [ObjMsg EXCEPT !.id = i, !.result = r, !.error = e]
Notif(m) == [ObjMsg EXCEPT !.method = m, !.params = ObjParams]
Delta(tn, d) ==
    [ObjMsg EXCEPT !.method = "item/agentMessage/delta",
                   !.params = [ObjParams EXCEPT !.turnId = tn, !.deltaIsStr = TRUE,
                                                !.delta = d]]
NonStrDelta(tn) ==
    [ObjMsg EXCEPT !.method = "item/agentMessage/delta",
                   !.params = [ObjParams EXCEPT !.turnId = tn]]
TurnError(tn, w, e) ==
    [ObjMsg EXCEPT !.method = "error",
                   !.params = [ObjParams EXCEPT !.turnId = tn, !.willRetry = w,
                                                !.error = e]]
Completed(tn, st, am, e) ==
    [ObjMsg EXCEPT !.method = "turn/completed",
                   !.params = [ObjParams EXCEPT
                      !.turn = [isObj |-> TRUE, id |-> tn, status |-> st,
                                agentMessage |-> am, error |-> e]]]
RateLimitsUpdated(l, v) ==
    [ObjMsg EXCEPT !.method = "account/rateLimits/updated",
                   !.params = [ObjParams EXCEPT !.rateLimits = RateLimits(l, v)]]
TokenCount(v) ==
    [ObjMsg EXCEPT !.method = "codex/event/token_count",
                   !.params = [ObjParams EXCEPT !.msgIsObj = TRUE, !.info = Info(v)]]

\* ------------------------------------------------------------ pure helpers
\* The characters of a method name on the wire; "" stands for a message
\* without a string method.
Spelling(m) ==
    CASE m = "" ->
           <<>>
      [] m = "error" ->
           <<"e", "r", "r", "o", "r">>
      [] m = "item/started" ->
           <<"i", "t", "e", "m", "/", "s", "t", "a", "r", "t", "e", "d">>
      [] m = "item/agentMessage/delta" ->
           <<"i", "t", "e", "m", "/", "a", "g", "e", "n", "t", "M", "e", "s",
           "s", "a", "g", "e", "/", "d", "e", "l", "t", "a">>
      [] m = "item/reasoning/textDelta" ->
           <<"i", "t", "e", "m", "/", "r", "e", "a", "s", "o", "n", "i", "n",
           "g", "/", "t", "e", "x", "t", "D", "e", "l", "t", "a">>
      [] m = "turn/completed" ->
           <<"t", "u", "r", "n", "/", "c", "o", "m", "p", "l", "e", "t", "e",
           "d">>
      [] m = "account/rateLimits/updated" ->
           <<"a", "c", "c", "o", "u", "n", "t", "/", "r", "a", "t", "e", "L",
           "i", "m", "i", "t", "s", "/", "u", "p", "d", "a", "t", "e", "d">>
      [] m = "codex/event/token_count" ->
           <<"c", "o", "d", "e", "x", "/", "e", "v", "e", "n", "t", "/", "t",
           "o", "k", "e", "n", "_", "c", "o", "u", "n", "t">>
      [] m = "thread/tokenUsage/updated" ->
           <<"t", "h", "r", "e", "a", "d", "/", "t", "o", "k", "e", "n", "U",
           "s", "a", "g", "e", "/", "u", "p", "d", "a", "t", "e", "d">>

\* sub in s, for strings as sequences of characters
In(sub, s) == \E i \in 1..(Len(s) - Len(sub) + 1) : SubSeq(s, i, i + Len(sub) - 1) = sub

\* A test for 'delta' that minds the case.
ContainsDeltaExact(method) == In(<<"d", "e", "l", "t", "a">>, Spelling(method))

\* 'delta' in method.lower(); lower acts on the capitals of the method names
ContainsDelta(method) ==
    LET capitals == ("D" :> "d") @@ ("L" :> "l") @@ ("M" :> "m") @@ ("U" :> "u")
        s == Spelling(method)
        lower == [i \in DOMAIN s |->
                    IF s[i] \in DOMAIN capitals THEN capitals[s[i]] ELSE s[i]]
    IN In(<<"d", "e", "l", "t", "a">>, lower)

RoutineMethods ==
    {"item/agentMessage/delta", "turn/completed", "account/rateLimits/updated",
     "codex/event/token_count", "thread/tokenUsage/updated"}

\* A predicate that finds every message noteworthy.
ReportsAll(msg) == TRUE

should_report_verbose_unhandled_message(msg) ==
    IF msg.method = "" THEN TRUE
    ELSE IF ContainsDelta(msg.method) THEN FALSE
    ELSE IF msg.method \in RoutineMethods THEN FALSE
    ELSE TRUE

\* An extraction that takes the message as it is, whatever it encodes.
ExtractMessageFirst(p) ==
    IF p.kind # "dict" THEN Unknown
    ELSE IF Strip(p.message) # <<>> THEN p.message
    ELSE IF p.info # <<>> THEN p.info ELSE Unknown

extract_error_message(p) ==
    IF p.kind # "dict"
    THEN IF p.kind = "scalar" THEN p.str ELSE Unknown
    ELSE IF Strip(p.message) # <<>>
         THEN IF Strip(p.detail) # <<>> THEN p.detail ELSE p.message
         ELSE IF p.info # <<>> THEN p.info ELSE Unknown

\* ------------------------------------------------------------------- state
VARIABLES
    scenario,            \* the run's callers and subprocess, see Active and Wire
    bot,                 \* the program around the client, see NoBot
    logOn,               \* acp_log_file is configured
    calls,               \* calls of the client's methods made so far
    proc,                \* self.proc: the subprocess spawned last, 0 is None
    alive,               \* the spawned subprocesses that have not exited
    spawned,             \* subprocesses spawned so far
    lines,               \* lines read from the subprocesses so far
    sent,                \* the lines written to the subprocesses' input
    next_id,             \* self.next_id
    lock,                \* the holder of self.lock
    thread_id,           \* self.thread_id, "" is None
    model,               \* self.model
    rate_limits_by_id,   \* self.rate_limits_by_id
    latest_token_usage,  \* self.latest_token_usage, NoInfo is None
    log,                 \* the log file: how many lines it holds, and the last
    pc,                  \* where each thread is in its call
    loc,                 \* each thread's local variables
    out                  \* how each thread's last call ended

cfgVars == <<scenario, logOn, bot>>
envVars == <<scenario, logOn, bot, calls>>
procVars == <<proc, alive, spawned, lines, sent>>
clientVars ==
    <<next_id, lock, thread_id, model, rate_limits_by_id, latest_token_usage, log>>
vars == <<envVars, procVars, clientVars, pc, loc, out>>

Models == {"m1", "m2"}

NoErr == [kind |-> "none", method |-> "", payload |-> AbsentErr, text |-> <<>>]
\* 'app-server not running. stderr: ...'
NotRunningErr == [NoErr EXCEPT !.kind = "not_running"]
\* An end of file reported as the not-running error.
EofAsNotRunning == NotRunningErr
\* 'Unexpected EOF from app-server stdout'
EofErr == [NoErr EXCEPT !.kind = "eof"]
\* f'{method} failed: {payload}'
RemoteErr(m, p) == [NoErr EXCEPT !.kind = "remote", !.method = m, !.payload = p]
\* 'No thread initialized'
NoThreadErr == [NoErr EXCEPT !.kind = "no_thread"]
\* 'thread/start did not return thread id: ...'
NoThreadIdErr == [NoErr EXCEPT !.kind = "no_thread_id"]
\* 'turn/start did not return turn id: ...'
NoTurnIdErr == [NoErr EXCEPT !.kind = "no_turn_id"]
\* RuntimeError(error_message) of a turn
TurnErr(text) == [NoErr EXCEPT !.kind = "turn", !.text = text]
\* TypeError('unhashable type') of a dict assignment
TypeErr == [NoErr EXCEPT !.kind = "type"]
\* Popen could not launch the command, or the command is empty
LaunchErr == [NoErr EXCEPT !.kind = "launch"]

\* The local variables of a call, as they are when it begins.
Locals(op) ==
    [op |-> op, method |-> "", req_id |-> NoId, threadId |-> "", model |-> "",
     msg |-> NoMsg, hasUnproc |-> FALSE, unprocessed |-> <<>>, result |-> AbsentResult,
     turn_id |-> "", chunks |-> <<>>, fallback_final |-> <<>>,
     turn_error_message |-> <<>>,
     terminates |-> 0, kills |-> 0, waits |-> 0]

\* shared: the value returned is the client's own object, not a copy of it;
\* scribbled: the caller has written into the value returned.
NoOut ==
    [op |-> "", kind |-> "none", err |-> NoErr, reply |-> <<>>, models |-> <<>>,
     rate_limits |-> NoEntries, token_usage |-> NoInfo, model |-> "",
     shared |-> FALSE, scribbled |-> FALSE]
Returned(op) == [NoOut EXCEPT !.op = op, !.kind = "return"]
Raised(op, e) == [NoOut EXCEPT !.op = op, !.kind = "raise", !.err = e]

\* ------------------------------------------------------------ chat adapter
\* CONFIG_KEYS (__main__.py, lines 60-69)
CONFIG_KEYS ==
    {"telegram_bot_token", "allowed_chat_id", "acp_log_file", "poll_timeout_seconds",
     "codex_app_server_cmd", "codex_model", "codex_cwd", "codex_approval_policy"}

\* A configuration file. exists: the path exists; parses: it is valid TOML;
\* top: the keys of its root table other than 'telecodex'; section: what the
\* root table has under 'telecodex' ("absent", "table", or "other" for any
\* other value); sec: the keys of that table.
NoFile == [exists |-> FALSE, parses |-> TRUE, top |-> {}, section |-> "absent", sec |-> {}]
Files ==
    {NoFile, [NoFile EXCEPT !.exists = TRUE, !.parses = FALSE]}
      \cup {[exists |-> TRUE, parses |-> TRUE, top |-> t, section |-> s, sec |-> c] :
              t \in SUBSET {"telegram_bot_token", "allowed_chat_id", "unknown_key"},
              s \in {"absent", "table", "other"},
              c \in SUBSET {"allowed_chat_id", "codex_model", "unknown_key"}}

\* A loader that looks up in the root table what the section lacks.
LoadSettingsWithFallback(f) ==
    IF ~f.exists THEN [kind |-> "return", values |-> [k \in {} |-> "top"]]
    ELSE IF ~f.parses \/ f.section = "other"
    THEN [kind |-> "raise", values |-> [k \in {} |-> "top"]]
    ELSE [kind |-> "return",
          values |-> [k \in CONFIG_KEYS \cap (f.top \cup f.sec) |->
                        IF k \in f.sec THEN "sec" ELSE "top"]]

\* load_settings_from_toml (__main__.py, lines 73-97). Each value returned
\* is named after the table it was read from.
load_settings_from_toml(f) ==
    IF ~f.exists THEN [kind |-> "return", values |-> [k \in {} |-> "top"]]
    ELSE IF ~f.parses THEN [kind |-> "raise", values |-> [k \in {} |-> "top"]]
    ELSE IF f.section = "absent"
    THEN [kind |-> "return", values |-> [k \in CONFIG_KEYS \cap f.top |-> "top"]]
    ELSE IF f.section = "table"
    THEN [kind |-> "return", values |-> [k \in CONFIG_KEYS \cap f.sec |-> "sec"]]
    ELSE [kind |-> "raise", values |-> [k \in {} |-> "top"]]

\* An update of Telegram: a text message (data "blank": nothing but spaces),
\* a command, or the press of a button of the model menu (arg: the model of
\* a 'model:set:' button). chat: the chat it comes from.
NoUpdate == [kind |-> "none", chat |-> "", data |-> "", arg |-> ""]
Updates ==
    {[NoUpdate EXCEPT !.kind = k, !.chat = c] :
        k \in {"start", "verbose", "status", "model"}, c \in {"c1", "c2"}}
      \cup {[NoUpdate EXCEPT !.kind = "text", !.chat = c, !.data = d] :
              c \in {"c1", "c2"}, d \in {"blank", "words"}}
      \cup {[NoUpdate EXCEPT !.kind = "callback", !.chat = c, !.data = d] :
              c \in {"c1", "c2"}, d \in {"model:cancel", "model:free_text"}}
      \cup {[NoUpdate EXCEPT !.kind = "callback", !.chat = c, !.data = "model:set:",
                             !.arg = a] : c \in {"c1", "c2"}, a \in {"m1", "m9"}}

\* The program around the client. sup: where run_bot is; config and
\* settings: the file of --config and what load_settings_from_toml made of
\* it; verbose and pending: bot_data['verbose'] and
\* bot_data['pending_model_input']; update: the update handled last; stage:
\* the call its handler awaits ("idle": no handler runs); replies: what its
\* handler has sent to Telegram so far.
NoBot ==
    [sup |-> "none", config |-> NoFile,
     settings |-> [kind |-> "none", values |-> [k \in {} |-> "top"]],
     verbose |-> FALSE, pending |-> FALSE, update |-> NoUpdate, stage |-> "idle",
     replies |-> <<>>]

\* The program as it begins in each scenario: "bot" is run_bot with a
\* configuration file that names the allowed chat, "toml" is
\* load_settings_from_toml on any file.
Bots(sc) ==
    CASE sc = "bot" ->
           {[NoBot EXCEPT !.sup = "config",
                          !.config = [NoFile EXCEPT !.exists = TRUE, !.section = "table",
                                                    !.sec = {"allowed_chat_id"}]]}
      [] sc = "toml" -> {[NoBot EXCEPT !.sup = "config", !.config = f] : f \in Files}
      [] OTHER -> {NoBot}

InitWith(sc, logging) ==
    /\ scenario = sc
    /\ bot \in Bots(sc)
    /\ logOn = logging
    /\ calls = 0
    /\ proc = 0
    /\ alive = {}
    /\ spawned = 0
    /\ lines = 0
    /\ sent = <<>>
    /\ next_id = 1
    /\ lock = NoThread
    /\ thread_id = ""
    /\ model = "m1"
    /\ rate_limits_by_id = NoEntries
    /\ latest_token_usage = NoInfo
    /\ log = [n |-> 0, last |-> NoMsg]
    /\ pc = [t \in Threads |-> "idle"]
    /\ loc = [t \in Threads |-> Locals("")]
    /\ out = [t \in Threads |-> NoOut]

\* --------------------------------------------------------------- scenarios
\* The ids of the requests sent so far, and of those that await their reply.
Allocated == 1..(next_id - 1)
Pending == {loc[t].req_id : t \in {u \in Threads : pc[u] = "req_read"}}

\* A reply that carries every id a caller looks for.
Reply(i) == Resp(i, ResultObj("th1", "tn1"))

\* "threads": two threads share one client whose subprocess answers the
\* requests it was sent and streams one turn.
WireThreads ==
    {Reply(i) : i \in Pending} \cup {Completed("tn1", "completed", <<>>, AbsentErr)}

\* "status": as "threads", with a rate-limit update during the turn.
WireStatus ==
    WireThreads \cup (IF \E t \in Threads : pc[t] = "ask_stream"
                      THEN {RateLimitsUpdated("A", 1)} ELSE {})

\* "refresh": the subprocess answers the requests it was sent and streams
\* one turn, with rate limits that change with every line it writes: an
\* answer to account/rateLimits/read, or an update during the turn, written
\* as line n carries the value n for limit A.
WireRefresh ==
    LET reads == {loc[t].req_id :
                    t \in {u \in Threads : /\ pc[u] = "req_read"
                                           /\ loc[u].op = "read_rate_limits"}}
    IN {Reply(i) : i \in Pending \ reads}
         \cup {Resp(i, SingleResult(RateLimits("A", lines + 1))) : i \in reads}
         \cup (IF \E t \in Threads : pc[t] = "ask_stream"
               THEN {RateLimitsUpdated("A", lines + 1),
                     Completed("tn1", "completed", <<>>, AbsentErr)}
               ELSE {})

\* "turn": one thread; the subprocess answers each request at once and, during
\* a turn, streams deltas, errors and completions of this and another turn,
\* a completion without params and notifications of other kinds.
TurnLines ==
    {Delta("tn1", <<"a">>), Delta("tn1", <<" ", "b">>), Delta("tn2", <<"c">>),
     NonStrDelta("tn1"),
     TurnError("tn1", "false", ErrMsg(<<"e1">>)),
     TurnError("tn1", "true", ErrMsg(<<"e1">>)),
     TurnError("tn1", "absent", ErrInfo(<<"e2">>)),
     TurnError("tn2", "false", ErrMsg(<<"e3">>)),
     TurnError("tn1", "false", ErrDetail(<<"m">>, <<"d">>)),
     TurnError("tn1", "false", ErrDetail(<<"m">>, <<" ">>)),
     TurnError("tn1", "false", [ErrMsg(<<" ">>) EXCEPT !.info = <<"i">>]),
     TurnError("tn1", "false", ErrInfo(<<" ">>)),
     TurnError("tn1", "false", DictErr),
     Completed("tn1", "completed", <<>>, AbsentErr),
     Completed("tn1", "completed", <<"f">>, AbsentErr),
     Completed("tn1", "completed", <<" ">>, AbsentErr),
     Completed("tn1", "failed", <<"f">>, ErrMsg(<<"boom">>)),
     Completed("tn1", "failed", <<>>, AbsentErr),
     Completed("tn2", "completed", <<"g">>, AbsentErr),
     Reply(1), Notif("item/started"), Notif("item/reasoning/textDelta"),
     [ObjMsg EXCEPT !.method = "turn/completed"]}

WireTurn ==
    IF \E t \in Threads : pc[t] = "ask_stream" THEN TurnLines
    ELSE {Reply(i) : i \in Pending}

\* "wire": one thread; the subprocess writes replies to the pending request
\* and to others, with or without result and error, notifications, one of
\* them a rate-limit update whose limit id is an array, and lines that are no
\* message.
WireLines ==
    {Resp(i, r) : i \in Pending \cup {next_id},
                  r \in {AbsentResult, ResultObj("th1", "tn1")}}
      \cup {ErrResp(i, AbsentResult, ErrMsg(<<"boom">>)) : i \in Pending}
      \cup {ErrResp(i, ResultObj("th1", "tn1"), NullErr) : i \in Pending}
      \cup {Notif("item/started"), Completed("tn1", "completed", <<>>, AbsentErr),
            Blank, BadJson, NonObj, RateLimitsUpdated("[]", 1),
            Notif("item/reasoning/textDelta")}

\* "log": one thread, with or without a log file; the subprocess answers each
\* request and writes notifications, of which the trackers know some, and
\* lines that are no message.
LogLines ==
    {Reply(i) : i \in Pending}
      \cup {RateLimitsUpdated("A", 1), TokenCount(1), Notif("item/started"),
            Delta("tn2", <<"c">>), [ObjMsg EXCEPT !.method = "item/agentMessage/delta"],
            Completed("tn1", "completed", <<>>, AbsentErr), Blank, BadJson}

\* "calls": one thread calls every method; the subprocess answers each
\* request at once and completes each turn.
WireCalls ==
    IF \E t \in Threads : pc[t] = "ask_stream"
    THEN {Completed("tn1", "completed", <<>>, AbsentErr)}
    ELSE {Reply(i) : i \in Pending}

\* "restart": one thread starts, stops and asks; each subprocess answers the
\* pending request, with a thread id of its own or without a result,
\* completes the turn, and writes rate limits and token counts that carry
\* its own number.
WireRestart ==
    {Resp(i, ResultObj(IF proc = 1 THEN "th1" ELSE "th2", "tn1")) : i \in Pending}
      \cup {Resp(i, AbsentResult) : i \in Pending}
      \cup {Completed("tn1", "completed", <<>>, AbsentErr)}
      \cup {RateLimitsUpdated("A", proc), TokenCount(proc)}

\* "track": one thread starts, lists the models and reads the trackers; the
\* subprocess answers the pending request, also with an error in a message
\* that is a token count as well, and writes rate-limit and token-count
\* notifications, well-formed (the limit id "" is the absent one) and not.
TrackLines ==
    {Reply(i) : i \in Pending}
      \cup {RateLimitsUpdated("A", 1), RateLimitsUpdated("B", 1), RateLimitsUpdated("A", 2),
            RateLimitsUpdated("", 1),
            [ObjMsg EXCEPT !.method = "account/rateLimits/updated"],
            Notif("account/rateLimits/updated"),
            TokenCount(1),
            [TokenCount(2) EXCEPT !.params.info = InfoLast(2, 1)],
            [ObjMsg EXCEPT !.method = "codex/event/token_count"],
            Notif("codex/event/token_count"),
            [TokenCount(1) EXCEPT !.params.info = NoInfo],
            [TokenCount(2) EXCEPT !.method = "thread/tokenUsage/updated"]}
      \cup {[TokenCount(2) EXCEPT !.id = i, !.error = ErrMsg(<<"boom">>)] :
               i \in Pending}

\* "rates": one thread starts, reads the rate limits and takes snapshots; the
\* subprocess answers the pending request with a thread id or with rate
\* limits in either shape, usable and not, and writes one update.
RateResults ==
    {ByIdResult("K" :> RateLimits("A", 3) @@ "B" :> NoRateLimits),
     [ByIdResult("B" :> NoRateLimits) EXCEPT !.single = RateLimits("S", 4)],
     SingleResult(RateLimits("", 5)),
     ScalarResult, AbsentResult}

RateLines ==
    {Reply(i) : i \in Pending}
      \cup {Resp(i, r) : i \in Pending, r \in RateResults}
      \cup {RateLimitsUpdated("A", 1)}

\* Handlers that send the text of every message as a turn.
WantOfTurns(stage) ==
    CASE stage \in {"ask", "set_model"} -> {"ask"}
      [] stage = "cb_set" -> {"set_model"}
      [] stage = "status" -> {"status"}
      [] stage \in {"list", "cb_list"} -> {"list_models"}
      [] stage \in {"get", "get_none", "cb_get"} -> {"get_model"}
      [] OTHER -> {}

\* The method of the client a handler at this stage runs in a worker thread
\* (asyncio.to_thread); "status" is read_rate_limits followed by
\* get_latest_token_usage.
WantOf(stage) ==
    CASE stage = "ask" -> {"ask"}
      [] stage \in {"set_model", "cb_set"} -> {"set_model"}
      [] stage = "status" -> {"status"}
      [] stage \in {"list", "cb_list"} -> {"list_models"}
      [] stage \in {"get", "get_none", "cb_get"} -> {"get_model"}
      [] OTHER -> {}

\* "bot": the subprocess answers each request, a turn/start also with an
\* error and a model/list with a model, and ends a turn well or badly after
\* a notification or without one.
WireBot ==
    IF \E t \in Threads : pc[t] = "ask_stream"
    THEN {Completed("tn1", "completed", <<"f">>, AbsentErr),
          Completed("tn1", "failed", <<>>, ErrMsg(<<"boom">>)),
          Notif("item/started")}
    ELSE UNION {IF loc[t].method = "model/list"
                THEN {Resp(loc[t].req_id, DataResult(<<ModelItem("m1", "", "")>>))}
                ELSE IF loc[t].method = "turn/start"
                THEN {Reply(loc[t].req_id),
                      ErrResp(loc[t].req_id, AbsentResult, ErrMsg(<<"boom">>))}
                ELSE {Reply(loc[t].req_id)} :
                t \in {u \in Threads : pc[u] = "req_read"}}

\* The threads that call the client.
Active ==
    IF scenario \in {"threads", "status", "refresh", "kill", "bot"} THEN Threads
    ELSE {"t1"}

\* The methods thread t calls.
Methods(t) ==
    CASE scenario = "threads" ->
           IF t = "t1" THEN {"start", "ask"} ELSE {"read_rate_limits", "stop"}
      [] scenario = "turn" -> {"start", "ask"}
      [] scenario = "wire" -> {"start", "ask", "list_models"}
      [] scenario = "log" -> {"start", "ask"}
      [] scenario = "restart" -> {"start", "stop", "ask"}
      [] scenario = "status" ->
           IF t = "t1" THEN {"start", "ask"}
           ELSE {"status", "get_rate_limits_snapshot", "get_latest_token_usage"}
      [] scenario = "rates" ->
           {"start", "read_rate_limits", "get_rate_limits_snapshot"}
      [] scenario = "refresh" ->
           IF t = "t1" THEN {"start", "ask"}
           ELSE {"read_rate_limits", "set_model", "get_model"}
      [] scenario = "kill" -> IF t = "t1" THEN {"start", "ask"} ELSE {"stop"}
      [] scenario = "bot" ->
           IF out[t].op # "" THEN {}
           ELSE IF t # "t1" THEN WantOf(bot.stage)
           ELSE IF bot.sup = "start" THEN {"start"}
           ELSE IF bot.sup \in {"stop_retry", "stop_exit"} THEN {"stop"}
           ELSE {}
      [] scenario = "toml" -> {}
      [] scenario = "track" ->
           {"start", "list_models", "get_rate_limits_snapshot",
            "get_latest_token_usage"}
      [] scenario = "calls" ->
           {"start", "ask", "read_rate_limits", "list_models", "stop", "get_model",
            "set_model", "get_rate_limits_snapshot", "get_latest_token_usage",
            "status"}

\* The lines the subprocesses of a run write: a turn needs the most.
LineBudget ==
    IF scenario \in {"turn", "calls", "restart", "bot", "refresh"} THEN MaxLines
    ELSE MaxLines - 2

\* The lines a subprocess may write to its output.
Wire == CASE scenario = "threads" -> WireThreads
          [] scenario = "turn" -> WireTurn
          [] scenario = "wire" -> WireLines
          [] scenario = "log" -> LogLines
          [] scenario = "restart" -> WireRestart
          [] scenario = "track" -> TrackLines
          [] scenario = "rates" -> RateLines
          [] scenario = "status" -> WireStatus
          [] scenario = "refresh" -> WireRefresh
          [] scenario = "kill" -> WireThreads
          [] scenario = "bot" -> WireBot
          [] scenario = "toml" -> {}
          [] scenario = "calls" -> WireCalls

\* --------------------------------------------------------------- transport
\* A liveness check that looks at self.proc only, without polling it.
RunningUnpolled == proc # 0

\* self.proc is not None and self.proc.poll() is None
Running == proc # 0 /\ proc \in alive

\* A transport that writes no log.
LogNothing(lg, line) == lg

\* _log_acp_message: the file grows by one line
LogAcpMessage(lg, line) == IF logOn THEN [n |-> lg.n + 1, last |-> line] ELSE lg

\* A tracker that forgets the other limits when it stores one.
TrackRateLimitsAlone(rl, msg) ==
    IF msg.method # "account/rateLimits/updated" THEN rl
    ELSE IF ~msg.params.isObj \/ ~msg.params.rateLimits.isObj THEN rl
    ELSE [k \in {msg.params.rateLimits.limitId} |-> msg.params.rateLimits]

\* _track_rate_limits
TrackRateLimits(rl, msg) ==
    IF msg.method # "account/rateLimits/updated" THEN rl
    ELSE IF ~msg.params.isObj THEN rl
    ELSE IF ~msg.params.rateLimits.isObj THEN rl
    ELSE LET limit_id == msg.params.rateLimits.limitId
         IN [k \in DOMAIN rl \cup {limit_id} |->
                IF k = limit_id THEN msg.params.rateLimits ELSE rl[k]]

\* A tracker that keeps the keys of the previous usage that the new lacks.
TrackTokenUsageMerged(tu, msg) ==
    IF msg.method # "codex/event/token_count" THEN tu
    ELSE IF ~msg.params.isObj \/ ~msg.params.msgIsObj \/ ~msg.params.info.isObj THEN tu
    ELSE [msg.params.info EXCEPT
            !.val = IF msg.params.info.val # 0 THEN msg.params.info.val ELSE tu.val,
            !.last = IF msg.params.info.last # 0 THEN msg.params.info.last ELSE tu.last]

\* A transport that returns messages without passing them to the usage tracker.
TrackNoUsage(tu, msg) == tu

\* _track_token_usage
TrackTokenUsage(tu, msg) ==
    IF msg.method # "codex/event/token_count" THEN tu
    ELSE IF ~msg.params.isObj THEN tu
    ELSE IF ~msg.params.msgIsObj THEN tu
    ELSE IF ~msg.params.info.isObj THEN tu
    ELSE msg.params.info

\* _track_rate_limits, line 184: the limit id is the key of a dict entry. An
\* id that is a JSON array or object, written "[]" here, cannot be one.
Unhashable(msg) ==
    /\ msg.method = "account/rateLimits/updated"
    /\ msg.params.isObj
    /\ msg.params.rateLimits.isObj
    /\ msg.params.rateLimits.limitId = "[]"

\* The lines _read_message skips: a blank line is dropped before the log,
\* a line that is not a JSON object after it.
RECURSIVE SkipLines(_, _)
SkipLines(lg, junk) ==
    IF junk = <<>> THEN lg
    ELSE SkipLines(IF Head(junk).raw = "blank" THEN lg
                   ELSE LogAcpMessage(lg, Head(junk)), Tail(junk))

JunkLines == {l \in Wire : l.raw \in {"blank", "badjson", "nonobj"}}
ObjLines == {l \in Wire : l.raw = "obj"}
JunkSeqs == UNION {[1..n -> JunkLines] : n \in 0..MaxJunk}

\* One call of _read_message that finds the lines junk and then final on the
\* subprocess's output; exits: the subprocess exits while the call waits.
\* err is the error it raises (NoErr: it returns msg).
ReadMessage(junk, final, exits) ==
    IF ~Running
    THEN [err |-> NotRunningErr, msg |-> NoMsg, log |-> log,
          rl |-> rate_limits_by_id, tu |-> latest_token_usage,
          lines |-> lines, alive |-> alive]
    ELSE IF final.raw = "eof"
    THEN [err |-> IF exits THEN NotRunningErr ELSE EofErr, msg |-> NoMsg,
          log |-> SkipLines(log, junk),
          rl |-> rate_limits_by_id, tu |-> latest_token_usage,
          lines |-> lines + Len(junk),
          alive |-> IF exits THEN alive \ {proc} ELSE alive]
    ELSE IF Unhashable(final)
    THEN [err |-> TypeErr, msg |-> NoMsg,
          log |-> LogAcpMessage(SkipLines(log, junk), final),
          rl |-> rate_limits_by_id, tu |-> latest_token_usage,
          lines |-> lines + Len(junk) + 1, alive |-> alive]
    ELSE [err |-> NoErr, msg |-> final,
          log |-> LogAcpMessage(SkipLines(log, junk), final),
          rl |-> TrackRateLimits(rate_limits_by_id, final),
          tu |-> TrackTokenUsage(latest_token_usage, final),
          lines |-> lines + Len(junk) + 1, alive |-> alive]

\* The inputs of one _read_message call that the bounds allow.
CanRead(junk, final, exits) ==
    /\ exits => final = Eof
    /\ ~Running => junk = <<>> /\ final = Eof /\ ~exits
    /\ lines + Len(junk) + (IF final = Eof THEN 0 ELSE 1) <= LineBudget

\* An exception that leaves the with-block and keeps the lock.
RaiseHoldingLock(t, e) ==
    /\ pc' = [pc EXCEPT ![t] = "idle"]
    /\ out' = [out EXCEPT ![t] = Raised(loc[t].op, e)]
    /\ UNCHANGED lock

\* The call of thread t ends by raising e; a with-block releases the lock.
Raise(t, e) ==
    /\ pc' = [pc EXCEPT ![t] = "idle"]
    /\ out' = [out EXCEPT ![t] = Raised(loc[t].op, e)]
    /\ lock' = IF lock = t THEN NoThread ELSE lock

\* -------------------------------------------------------------- supervisor
\* start(), lines 79-92: spawn the subprocess (launched: Popen succeeded and
\* the command is not empty), then enter _request('initialize'). start()
\* takes no lock.
StartCall(t) ==
    /\ t \in Active
    /\ "start" \in Methods(t)
    /\ pc[t] = "idle"
    /\ calls < MaxCalls
    /\ calls' = calls + 1
    /\ \E launched \in BOOLEAN :
         /\ loc' = [loc EXCEPT ![t] = [Locals("start") EXCEPT !.method = "initialize"]]
         /\ IF launched
            THEN /\ spawned' = spawned + 1
                 /\ proc' = spawned + 1
                 /\ alive' = alive \cup {spawned + 1}
                 /\ pc' = [pc EXCEPT ![t] = "req_alloc"]
                 /\ out' = [out EXCEPT ![t] = NoOut]
            ELSE /\ pc' = [pc EXCEPT ![t] = "idle"]
                 /\ out' = [out EXCEPT ![t] = Raised("start", LaunchErr)]
                 /\ UNCHANGED <<spawned, proc, alive>>
    /\ UNCHANGED <<cfgVars, lines, sent, clientVars>>

\* start(), line 103: _notify('initialized'), then enter _request('thread/start').
StartNotify(t) ==
    /\ pc[t] = "start_notify"
    /\ IF Running
       THEN /\ sent' = Append(sent, [gen |-> proc, id |-> NoId, method |-> "initialized",
                                     threadId |-> "", model |-> ""])
            /\ loc' = [loc EXCEPT ![t].method = "thread/start", ![t].model = model]
            /\ pc' = [pc EXCEPT ![t] = "req_alloc"]
            /\ UNCHANGED <<out, lock>>
       ELSE /\ Raise(t, NotRunningErr)
            /\ UNCHANGED <<sent, loc>>
    /\ UNCHANGED <<envVars, proc, alive, spawned, lines, next_id, thread_id, model,
                   rate_limits_by_id, latest_token_usage, log>>

\* A stop that forgets the rate limits of the subprocess it ends.
StopCallForgets(t) ==
    /\ t \in Active
    /\ "stop" \in Methods(t)
    /\ pc[t] = "idle"
    /\ calls < MaxCalls
    /\ calls' = calls + 1
    /\ IF Running
       THEN /\ loc' = [loc EXCEPT ![t] = [Locals("stop") EXCEPT !.terminates = 1]]
            /\ pc' = [pc EXCEPT ![t] = "stop_wait"]
            /\ out' = [out EXCEPT ![t] = NoOut]
       ELSE /\ loc' = [loc EXCEPT ![t] = Locals("stop")]
            /\ pc' = [pc EXCEPT ![t] = "idle"]
            /\ out' = [out EXCEPT ![t] = Returned("stop")]
    /\ rate_limits_by_id' = NoEntries
    /\ UNCHANGED <<cfgVars, procVars, next_id, lock, thread_id, model,
                   latest_token_usage, log>>

\* stop(), lines 357-362: nothing to do without a running subprocess,
\* otherwise terminate() and wait.
StopCall(t) ==
    /\ t \in Active
    /\ "stop" \in Methods(t)
    /\ pc[t] = "idle"
    /\ calls < MaxCalls
    /\ calls' = calls + 1
    /\ IF Running
       THEN /\ loc' = [loc EXCEPT ![t] = [Locals("stop") EXCEPT !.terminates = 1]]
            /\ pc' = [pc EXCEPT ![t] = "stop_wait"]
            /\ out' = [out EXCEPT ![t] = NoOut]
       ELSE /\ loc' = [loc EXCEPT ![t] = Locals("stop")]
            /\ pc' = [pc EXCEPT ![t] = "idle"]
            /\ out' = [out EXCEPT ![t] = Returned("stop")]
    /\ UNCHANGED <<cfgVars, procVars, clientVars>>

\* A stop that never finds the subprocess running after the first wait.
NeverStillRuns(left) == FALSE

\* stop(), line 366: self.proc.poll() is None, left being the subprocesses
\* that run after the wait
StillRuns(left) == proc \in left

\* stop(), lines 363-367: wait(timeout=5) returns with the subprocess exited
\* (exited) or times out; a subprocess that still runs is killed.
StopWait(t) ==
    /\ pc[t] = "stop_wait"
    /\ \E exited \in BOOLEAN :
         LET left == IF exited THEN alive \ {proc} ELSE alive
         IN IF StillRuns(left)
            THEN /\ alive' = left \ {proc}
                 /\ loc' = [loc EXCEPT ![t].waits = 1, ![t].kills = loc[t].kills + 1]
                 /\ pc' = [pc EXCEPT ![t] = "stop_kill_wait"]
                 /\ UNCHANGED out
            ELSE /\ alive' = left
                 /\ loc' = [loc EXCEPT ![t].waits = 1]
                 /\ pc' = [pc EXCEPT ![t] = "idle"]
                 /\ out' = [out EXCEPT ![t] = Returned("stop")]
    /\ UNCHANGED <<envVars, proc, spawned, lines, sent, clientVars>>

\* stop(), lines 368-369: the wait after kill().
StopKillWait(t) ==
    /\ pc[t] = "stop_kill_wait"
    /\ loc' = [loc EXCEPT ![t].waits = loc[t].waits + 1]
    /\ pc' = [pc EXCEPT ![t] = "idle"]
    /\ out' = [out EXCEPT ![t] = Returned("stop")]
    /\ UNCHANGED <<envVars, procVars, clientVars>>

\* The subprocess exits, by itself or on a signal it was sent.
ProcExit ==
    /\ Running
    /\ alive' = alive \ {proc}
    /\ UNCHANGED <<envVars, proc, spawned, lines, sent, clientVars, pc, loc, out>>

\* -------------------------------------------------------------- correlator
\* _request, line 262: req_id = self.next_id
RequestAlloc(t) ==
    /\ pc[t] = "req_alloc"
    /\ loc' = [loc EXCEPT ![t].req_id = next_id]
    /\ pc' = [pc EXCEPT ![t] = "req_send"]
    /\ UNCHANGED <<envVars, procVars, clientVars, out>>

\* _request, lines 263-265: self.next_id += 1, then _send (lines 130-135),
\* which raises unless the subprocess runs.
RequestSend(t) ==
    /\ pc[t] = "req_send"
    /\ next_id' = next_id + 1
    /\ IF Running
       THEN /\ sent' = Append(sent, [gen |-> proc, id |-> loc[t].req_id,
                                     method |-> loc[t].method,
                                     threadId |-> loc[t].threadId,
                                     model |-> loc[t].model])
            /\ pc' = [pc EXCEPT ![t] = "req_read"]
            /\ UNCHANGED <<out, lock>>
       ELSE /\ Raise(t, NotRunningErr)
            /\ UNCHANGED sent
    /\ UNCHANGED <<envVars, proc, alive, spawned, lines, thread_id, model,
                   rate_limits_by_id, latest_token_usage, log, loc>>

\* msg.get('result', {})
ResultOf(msg) == IF msg.result.kind = "absent" THEN EmptyObj ELSE msg.result

\* A correlator that takes any response for the answer, whatever its id.
AnswersAnyId(msg, req_id) == msg.id # NoId

\* _request, line 269: the message answers the pending request
Answers(msg, req_id) == msg.id = req_id

\* A correlator that lets a result, when there is one, hide the error.
HasErrorOnly(msg) == msg.error.kind # "absent" /\ msg.result.kind = "absent"

\* _request, line 270: 'error' in msg
HasError(msg) == msg.error.kind # "absent"

\* _request, lines 273-274: a message that does not answer the request
Unprocessed(l, msg) ==
    IF l.hasUnproc /\ should_report_verbose_unhandled_message(msg)
    THEN Append(l.unprocessed, msg)
    ELSE l.unprocessed

\* list_models, lines 243-257: the models of a model/list result
RECURSIVE ModelOptions(_)
ModelOptions(items) ==
    IF items = <<>> THEN <<>>
    ELSE LET item == Head(items)
             raw_model_id == IF item.model # "" THEN item.model ELSE item.id
         IN IF ~item.isObj \/ raw_model_id = "" THEN ModelOptions(Tail(items))
            ELSE <<[model_id |-> raw_model_id,
                    display_name |-> IF item.displayName # "" THEN item.displayName
                                     ELSE raw_model_id]>>
                 \o ModelOptions(Tail(items))

ListedModels(result) ==
    IF result.kind = "obj" /\ result.data.isList
    THEN ModelOptions(result.data.items) ELSE <<>>

\* A start() that keeps the thread id the client already has.
ThreadIdKept(result) ==
    IF thread_id # "" THEN thread_id
    ELSE IF result.kind = "obj" THEN result.threadId ELSE ""

\* A start() that makes up a thread id when the result holds none.
ThreadIdAssumed(result) ==
    IF result.kind = "obj" /\ result.threadId # "" THEN result.threadId ELSE "th1"

\* start, lines 114-115, and ask, lines 295-296: the id inside the result
ThreadIdOf(result) == IF result.kind = "obj" THEN result.threadId ELSE ""
TurnIdOf(result) == IF result.kind = "obj" THEN result.turnId ELSE ""

\* What the caller of _request does with the result it returns, up to its
\* next read or write of the subprocess or of shared state.
Continue(t, l, result) ==
    CASE l.op = "start" /\ l.method = "initialize" ->
           /\ pc' = [pc EXCEPT ![t] = "start_notify"]
           /\ loc' = [loc EXCEPT ![t] = l]
           /\ UNCHANGED <<out, lock, thread_id>>
      [] l.op = "start" /\ l.method = "thread/start" ->
           /\ pc' = [pc EXCEPT ![t] = "idle"]
           /\ loc' = [loc EXCEPT ![t] = l]
           /\ IF ThreadIdOf(result) = ""
              THEN /\ out' = [out EXCEPT ![t] = Raised("start", NoThreadIdErr)]
                   /\ UNCHANGED thread_id
              ELSE /\ out' = [out EXCEPT ![t] = Returned("start")]
                   /\ thread_id' = ThreadIdOf(result)
           /\ UNCHANGED lock
      [] l.op = "ask" ->
           /\ loc' = [loc EXCEPT ![t] = [l EXCEPT !.turn_id = TurnIdOf(result)]]
           /\ IF TurnIdOf(result) = ""
              THEN Raise(t, NoTurnIdErr)
              ELSE /\ pc' = [pc EXCEPT ![t] = "ask_stream"]
                   /\ UNCHANGED <<out, lock>>
           /\ UNCHANGED thread_id
      [] l.op \in {"read_rate_limits", "status"} ->
           /\ pc' = [pc EXCEPT ![t] = "rrl_store"]
           /\ loc' = [loc EXCEPT ![t] = l]
           /\ lock' = NoThread
           /\ UNCHANGED <<out, thread_id>>
      [] l.op = "list_models" ->
           /\ pc' = [pc EXCEPT ![t] = "idle"]
           /\ loc' = [loc EXCEPT ![t] = l]
           /\ lock' = NoThread
           /\ out' = [out EXCEPT ![t] =
                        [Returned("list_models") EXCEPT !.models = ListedModels(result)]]
           /\ UNCHANGED thread_id

\* _request, lines 267-274: one turn of the loop. The message read is kept
\* in the local msg; a request that raises releases the lock its caller holds.
RequestRead(t) ==
    /\ pc[t] = "req_read"
    /\ \E junk \in JunkSeqs, final \in ObjLines \cup {Eof}, exits \in BOOLEAN :
         /\ CanRead(junk, final, exits)
         /\ \E r \in {ReadMessage(junk, final, exits)} :
            LET l == IF r.err = NoErr THEN [loc[t] EXCEPT !.msg = r.msg] ELSE loc[t]
            IN /\ log' = r.log
               /\ rate_limits_by_id' = r.rl
               /\ latest_token_usage' = r.tu
               /\ lines' = r.lines
               /\ alive' = r.alive
               /\ IF r.err # NoErr
                  THEN /\ Raise(t, r.err)
                       /\ UNCHANGED <<loc, thread_id>>
                  ELSE IF Answers(r.msg, l.req_id)
                  THEN IF HasError(r.msg)
                       THEN /\ Raise(t, RemoteErr(l.method, r.msg.error))
                            /\ loc' = [loc EXCEPT ![t] = l]
                            /\ UNCHANGED thread_id
                       ELSE Continue(t, [l EXCEPT !.result = ResultOf(r.msg)],
                                     ResultOf(r.msg))
                  ELSE /\ loc' = [loc EXCEPT ![t] =
                                    [l EXCEPT !.unprocessed = Unprocessed(l, r.msg)]]
                       /\ UNCHANGED <<pc, out, lock, thread_id>>
    /\ UNCHANGED <<envVars, proc, spawned, sent, next_id, model>>

\* ------------------------------------------------------------- turn engine
\* An ask that does not look at the thread id.
ThreadNeverMissing == FALSE

\* ask, line 282: not self.thread_id
ThreadMissing == thread_id = ""

\* ask, lines 280-294: under the lock, check the subprocess and the thread,
\* then enter _request('turn/start') with the thread id and the model.
AskCall(t) ==
    /\ t \in Active
    /\ "ask" \in Methods(t)
    /\ pc[t] = "idle"
    /\ calls < MaxCalls
    /\ calls' = calls + 1
    /\ lock = NoThread
    /\ IF ~Running
       THEN /\ loc' = [loc EXCEPT ![t] = Locals("ask")]
            /\ out' = [out EXCEPT ![t] = Raised("ask", NotRunningErr)]
            /\ UNCHANGED <<pc, lock>>
       ELSE IF ThreadMissing
       THEN /\ loc' = [loc EXCEPT ![t] = Locals("ask")]
            /\ out' = [out EXCEPT ![t] = Raised("ask", NoThreadErr)]
            /\ UNCHANGED <<pc, lock>>
       ELSE /\ loc' = [loc EXCEPT ![t] =
                         [Locals("ask") EXCEPT !.method = "turn/start",
                                               !.threadId = thread_id,
                                               !.model = model,
                                               !.hasUnproc = TRUE]]
            /\ pc' = [pc EXCEPT ![t] = "req_alloc"]
            /\ lock' = t
            /\ out' = [out EXCEPT ![t] = NoOut]
    /\ UNCHANGED <<cfgVars, procVars, next_id, thread_id, model, rate_limits_by_id,
                   latest_token_usage, log>>

\* A streaming loop that takes the messages of every turn for its own.
ForAnyTurn(msg, turn_id) == TRUE

\* ask, lines 313 and 319: the message is addressed to the current turn
ForTurn(msg, turn_id) == msg.params.turnId = turn_id

\* A streaming loop that goes on only when told that the error is retried.
IsFatalUnlessRetried(msg) == msg.params.willRetry # "true"

\* ask, line 322: params.get('willRetry') is False
IsFatal(msg) == msg.params.willRetry = "false"

\* A streaming loop that ends on the completion of any turn.
CompletesAnyTurn(msg, turn_id) == TRUE

\* ask, lines 327-329: the turn/completed message is the current turn's
CompletesTurn(msg, turn_id) ==
    (IF msg.params.turn.isObj THEN msg.params.turn.id ELSE "") = turn_id

\* ask, lines 334-337: the fallback message of a completed turn
FallbackFinal(l, msg) ==
    IF Strip(msg.params.turn.agentMessage) # <<>>
    THEN msg.params.turn.agentMessage ELSE l.fallback_final

\* A failed turn that prefers the last streamed error to the completion's own.
FailedMessageLastFirst(l, msg) ==
    IF l.turn_error_message # <<>> THEN l.turn_error_message
    ELSE extract_error_message(msg.params.turn.error)

\* ask, lines 339-341: the message a failed turn raises with
FailedMessage(l, msg) ==
    LET error_message == extract_error_message(msg.params.turn.error)
    IN IF error_message = Unknown /\ l.turn_error_message # <<>>
       THEN l.turn_error_message ELSE error_message

\* A reply that is not trimmed.
FinalReplyUntrimmed(l) ==
    IF Join(l.chunks) # <<>> THEN Join(l.chunks)
    ELSE IF l.fallback_final # <<>> THEN l.fallback_final
    ELSE Placeholder

\* ask, lines 347-354: the reply of a completed turn
FinalReply(l) ==
    LET final == Strip(Join(l.chunks))
    IN IF final # <<>> THEN final
       ELSE IF l.fallback_final # <<>> THEN l.fallback_final
       ELSE Placeholder

\* ask, lines 307-345: what one turn of the streaming loop does with msg.
\* next: "loop" continue reading, "raise" with err, "return" with reply.
StreamStep(l, msg) ==
    LET go(ll) == [next |-> "loop", l |-> ll, err |-> NoErr]
    IN IF msg.method = "" \/ ~msg.params.isObj
       THEN go([l EXCEPT !.unprocessed = Append(l.unprocessed, msg)])
       ELSE IF msg.method = "item/agentMessage/delta" /\ ForTurn(msg, l.turn_id)
       THEN go(IF msg.params.deltaIsStr
               THEN [l EXCEPT !.chunks = Append(l.chunks, msg.params.delta)]
               ELSE l)
       ELSE IF msg.method = "error" /\ ForTurn(msg, l.turn_id)
       THEN LET error_message == extract_error_message(msg.params.error)
                ll == [l EXCEPT !.turn_error_message = error_message]
            IN IF IsFatal(msg)
               THEN [next |-> "raise", l |-> ll, err |-> TurnErr(error_message)]
               ELSE go(ll)
       ELSE IF msg.method = "turn/completed"
       THEN IF ~CompletesTurn(msg, l.turn_id)
            THEN go([l EXCEPT !.unprocessed =
                        IF should_report_verbose_unhandled_message(msg)
                        THEN Append(l.unprocessed, msg) ELSE l.unprocessed])
            ELSE LET ll == [l EXCEPT !.fallback_final = FallbackFinal(l, msg)]
                 IN IF msg.params.turn.status = "failed"
                    THEN [next |-> "raise", l |-> ll,
                          err |-> TurnErr(FailedMessage(ll, msg))]
                    ELSE [next |-> "return", l |-> ll, err |-> NoErr]
       ELSE go([l EXCEPT !.unprocessed =
                   IF should_report_verbose_unhandled_message(msg)
                   THEN Append(l.unprocessed, msg) ELSE l.unprocessed])

\* ask, lines 304-354: one turn of the streaming loop, and the reply when
\* the turn completes.
AskStream(t) ==
    /\ pc[t] = "ask_stream"
    /\ \E junk \in JunkSeqs, final \in ObjLines \cup {Eof}, exits \in BOOLEAN :
         /\ CanRead(junk, final, exits)
         /\ \E r \in {ReadMessage(junk, final, exits)} :
            \E s \in {StreamStep([loc[t] EXCEPT !.msg = r.msg], r.msg)} :
               /\ log' = r.log
               /\ rate_limits_by_id' = r.rl
               /\ latest_token_usage' = r.tu
               /\ lines' = r.lines
               /\ alive' = r.alive
               /\ IF r.err # NoErr
                  THEN /\ Raise(t, r.err)
                       /\ UNCHANGED loc
                  ELSE /\ loc' = [loc EXCEPT ![t] = s.l]
                       /\ CASE s.next = "loop" -> UNCHANGED <<pc, out, lock>>
                            [] s.next = "raise" -> Raise(t, s.err)
                            [] s.next = "return" ->
                                 /\ pc' = [pc EXCEPT ![t] = "idle"]
                                 /\ lock' = NoThread
                                 /\ out' = [out EXCEPT ![t] =
                                      [Returned("ask") EXCEPT !.reply = FinalReply(s.l)]]
    /\ UNCHANGED <<envVars, proc, spawned, sent, next_id, thread_id, model>>

\* ---------------------------------------------------- request-based calls
\* read_rate_limits, lines 191-192: under the lock, enter _request.
ReadRateLimitsCall(t) ==
    /\ t \in Active
    /\ "read_rate_limits" \in Methods(t)
    /\ pc[t] = "idle"
    /\ calls < MaxCalls
    /\ calls' = calls + 1
    /\ lock = NoThread
    /\ lock' = t
    /\ loc' = [loc EXCEPT ![t] =
                 [Locals("read_rate_limits") EXCEPT !.method = "account/rateLimits/read"]]
    /\ pc' = [pc EXCEPT ![t] = "req_alloc"]
    /\ out' = [out EXCEPT ![t] = NoOut]
    /\ UNCHANGED <<cfgVars, procVars, next_id, thread_id, model, rate_limits_by_id,
                   latest_token_usage, log>>

\* A normalisation that turns to the single object when the mapping has no
\* usable entry.
NormalizedOrSingle(result) ==
    LET usable == IF result.kind = "obj" /\ result.byId.isObj
                  THEN {j \in DOMAIN result.byId.map : result.byId.map[j].isObj}
                  ELSE {}
    IN IF usable # {} THEN [k \in usable |-> result.byId.map[k]]
       ELSE IF result.kind = "obj" /\ result.single.isObj
       THEN [k \in {result.single.limitId} |-> result.single]
       ELSE NoEntries

\* An accessor that hands out the client's own mapping.
SharedUncopied(op) == op = "get_rate_limits_snapshot"

\* copy.deepcopy, lines 188, 199-207 and 229: what op returns shares no
\* structure with the client's state
SharedAfterCopy(op) == FALSE

\* What a caller's writes make of a mapping and of a usage it was returned.
ScribbledLimits(m) == [k \in DOMAIN m \cup {"scribble"} |-> NoRateLimits]
ScribbledInfo == [NoInfo EXCEPT !.isObj = TRUE]

\* read_rate_limits, lines 194-203: the usable entries of the result
Normalized(result) ==
    IF result.kind = "obj" /\ result.byId.isObj
    THEN [k \in {j \in DOMAIN result.byId.map : result.byId.map[j].isObj} |->
            result.byId.map[k]]
    ELSE IF result.kind = "obj" /\ result.single.isObj
    THEN [k \in {result.single.limitId} |-> result.single]
    ELSE NoEntries

\* read_rate_limits returns to its caller, or to the /status handler, which
\* goes on (telegram_handlers.py, lines 186-187).
Snapshot(op) == IF op = "status" THEN [NoOut EXCEPT !.op = "status"] ELSE Returned(op)

\* read_rate_limits, lines 194-210, after the lock is released: store and
\* return the usable entries, or return the snapshot when there are none.
ReadRateLimitsStore(t) ==
    /\ pc[t] = "rrl_store"
    /\ LET normalized == Normalized(loc[t].result)
       IN IF DOMAIN normalized # {}
          THEN /\ rate_limits_by_id' = normalized
               /\ out' = [out EXCEPT ![t] =
                    [Snapshot(loc[t].op) EXCEPT
                        !.rate_limits = normalized,
                        !.shared = SharedAfterCopy("read_rate_limits")]]
          ELSE /\ UNCHANGED rate_limits_by_id
               /\ out' = [out EXCEPT ![t] =
                    [Snapshot(loc[t].op) EXCEPT
                        !.rate_limits = rate_limits_by_id,
                        !.shared = SharedAfterCopy("get_rate_limits_snapshot")]]
    /\ pc' = [pc EXCEPT ![t] = IF loc[t].op = "status" THEN "status_usage" ELSE "idle"]
    /\ UNCHANGED <<envVars, procVars, next_id, lock, thread_id, model,
                   latest_token_usage, log, loc>>

\* list_models, lines 240-241: under the lock, enter _request.
ListModelsCall(t) ==
    /\ t \in Active
    /\ "list_models" \in Methods(t)
    /\ pc[t] = "idle"
    /\ calls < MaxCalls
    /\ calls' = calls + 1
    /\ lock = NoThread
    /\ lock' = t
    /\ loc' = [loc EXCEPT ![t] = [Locals("list_models") EXCEPT !.method = "model/list"]]
    /\ pc' = [pc EXCEPT ![t] = "req_alloc"]
    /\ out' = [out EXCEPT ![t] = NoOut]
    /\ UNCHANGED <<cfgVars, procVars, next_id, thread_id, model, rate_limits_by_id,
                   latest_token_usage, log>>

\* ------------------------------------------------------------- accessors
\* get_model: under the lock
GetModel(t) ==
    /\ t \in Active
    /\ "get_model" \in Methods(t)
    /\ pc[t] = "idle"
    /\ calls < MaxCalls
    /\ calls' = calls + 1
    /\ lock = NoThread
    /\ loc' = [loc EXCEPT ![t] = Locals("get_model")]
    /\ out' = [out EXCEPT ![t] = [Returned("get_model") EXCEPT !.model = model]]
    /\ UNCHANGED <<cfgVars, procVars, clientVars, pc>>

\* A set_model that does not take the lock.
SetModelUnlocked(t) ==
    /\ t \in Active
    /\ "set_model" \in Methods(t)
    /\ pc[t] = "idle"
    /\ calls < MaxCalls
    /\ calls' = calls + 1
    /\ \E m \in Models :
         /\ model' = m
         /\ loc' = [loc EXCEPT ![t] = [Locals("set_model") EXCEPT !.model = m]]
    /\ out' = [out EXCEPT ![t] = Returned("set_model")]
    /\ UNCHANGED <<cfgVars, procVars, next_id, lock, thread_id, rate_limits_by_id,
                   latest_token_usage, log, pc>>

\* set_model: under the lock. A handler passes the model of the button
\* pressed or the text of the message (telegram_handlers.py, lines 140 and
\* 343), another caller any model.
SetModel(t) ==
    /\ t \in Active
    /\ "set_model" \in Methods(t)
    /\ pc[t] = "idle"
    /\ calls < MaxCalls
    /\ calls' = calls + 1
    /\ lock = NoThread
    /\ \E m \in (IF scenario # "bot" THEN Models
                 ELSE IF bot.stage = "cb_set" THEN {bot.update.arg}
                 ELSE {bot.update.data}) :
         /\ model' = m
         /\ loc' = [loc EXCEPT ![t] = [Locals("set_model") EXCEPT !.model = m]]
    /\ out' = [out EXCEPT ![t] = Returned("set_model")]
    /\ UNCHANGED <<cfgVars, procVars, next_id, lock, thread_id, rate_limits_by_id,
                   latest_token_usage, log, pc>>

\* A tracker lock that is free only when the main lock is.
TrackerLocksWithMain == lock = NoThread

\* rate_limits_lock and token_usage_lock, lines 183-184, 187-188, 206-207,
\* 224-225 and 228-229: each is held within one step only, so it is free
\* whenever a thread comes to take it
TrackerLocksFree == TRUE

\* get_rate_limits_snapshot: under rate_limits_lock only
GetRateLimitsSnapshot(t) ==
    /\ t \in Active
    /\ TrackerLocksFree
    /\ "get_rate_limits_snapshot" \in Methods(t)
    /\ pc[t] = "idle"
    /\ calls < MaxCalls
    /\ calls' = calls + 1
    /\ loc' = [loc EXCEPT ![t] = Locals("get_rate_limits_snapshot")]
    /\ out' = [out EXCEPT ![t] =
         [Returned("get_rate_limits_snapshot") EXCEPT
             !.rate_limits = rate_limits_by_id,
             !.shared = SharedAfterCopy("get_rate_limits_snapshot")]]
    /\ UNCHANGED <<cfgVars, procVars, clientVars, pc>>

\* get_latest_token_usage: under token_usage_lock only
GetLatestTokenUsage(t) ==
    /\ t \in Active
    /\ TrackerLocksFree
    /\ "get_latest_token_usage" \in Methods(t)
    /\ pc[t] = "idle"
    /\ calls < MaxCalls
    /\ calls' = calls + 1
    /\ loc' = [loc EXCEPT ![t] = Locals("get_latest_token_usage")]
    /\ out' = [out EXCEPT ![t] =
         [Returned("get_latest_token_usage") EXCEPT
             !.token_usage = latest_token_usage,
             !.shared = SharedAfterCopy("get_latest_token_usage")]]
    /\ UNCHANGED <<cfgVars, procVars, clientVars, pc>>

\* handle_status_command (telegram_handlers.py, lines 176-186): the /status
\* command of the allowed chat runs read_rate_limits in a worker thread,
\* which first has to take the main lock.
StatusCommand(t) ==
    /\ t \in Active
    /\ "status" \in Methods(t)
    /\ pc[t] = "idle"
    /\ calls < MaxCalls
    /\ calls' = calls + 1
    /\ loc' = [loc EXCEPT ![t] =
                 [Locals("status") EXCEPT !.method = "account/rateLimits/read"]]
    /\ pc' = [pc EXCEPT ![t] = "status_wait"]
    /\ out' = [out EXCEPT ![t] = NoOut]
    /\ UNCHANGED <<cfgVars, procVars, clientVars>>

\* read_rate_limits, line 191, called for /status: with self.lock
StatusAcquire(t) ==
    /\ pc[t] = "status_wait"
    /\ lock = NoThread
    /\ lock' = t
    /\ pc' = [pc EXCEPT ![t] = "req_alloc"]
    /\ UNCHANGED <<envVars, procVars, next_id, thread_id, model, rate_limits_by_id,
                   latest_token_usage, log, loc, out>>

\* handle_status_command (telegram_handlers.py, lines 187-194 and on): read
\* the latest token usage and answer with it and the rate limits.
StatusReply(t) ==
    /\ pc[t] = "status_usage"
    /\ TrackerLocksFree
    /\ out' = [out EXCEPT ![t].kind = "return", ![t].token_usage = latest_token_usage]
    /\ pc' = [pc EXCEPT ![t] = "idle"]
    /\ UNCHANGED <<envVars, procVars, clientVars, loc>>

\* The caller of get_rate_limits_snapshot, read_rate_limits or
\* get_latest_token_usage writes into the value it was returned; the writes
\* reach the client's state when the value is shared with it.
CallerScribbles(t) ==
    /\ t \in Active
    /\ scenario \in {"rates", "calls"}
    /\ pc[t] = "idle"
    /\ out[t].kind = "return"
    /\ ~out[t].scribbled
    /\ \/ /\ out[t].op \in {"get_rate_limits_snapshot", "read_rate_limits"}
          /\ out' = [out EXCEPT ![t].rate_limits = ScribbledLimits(out[t].rate_limits),
                                ![t].scribbled = TRUE]
          /\ rate_limits_by_id' = IF out[t].shared
                                  THEN ScribbledLimits(out[t].rate_limits)
                                  ELSE rate_limits_by_id
          /\ UNCHANGED latest_token_usage
       \/ /\ out[t].op = "get_latest_token_usage"
          /\ out[t].token_usage.isObj
          /\ out' = [out EXCEPT ![t].token_usage = ScribbledInfo, ![t].scribbled = TRUE]
          /\ latest_token_usage' = IF out[t].shared THEN ScribbledInfo
                                   ELSE latest_token_usage
          /\ UNCHANGED rate_limits_by_id
    /\ UNCHANGED <<envVars, procVars, next_id, lock, thread_id, model, log, pc, loc>>

\* ------------------------------------------------------------------ run_bot
\* A chat check that lets every chat in.
AllowedAny(u) == TRUE

\* The chat check of every handler (telegram_handlers.py, lines 133-134,
\* 156-157, 166-167, 180-181, 262-263 and 300-301): message.chat_id is
\* allowed_chat_id, which is the chat "c1".
Allowed(u) == u.chat = "c1"

\* A handler that on a failed turn also sends what else it has.
UserInputRepliesAll(o, unprocessed, verbose) ==
    (IF o.kind = "raise" THEN <<"error">> ELSE <<"answer">>)
      \o [i \in 1..Len(SelectSeq(unprocessed, LAMBDA m : ~ContainsDelta(m.method))) |->
            "raw"]

\* process_user_input (telegram_handlers.py, lines 109-122): the replies
\* sent once ask has ended as o, with the unprocessed messages of the turn.
UserInputReplies(o, unprocessed, verbose) ==
    IF o.kind = "raise" THEN <<"error">>
    ELSE <<"answer">>
           \o (IF verbose
               THEN [i \in 1..Len(SelectSeq(unprocessed,
                                            LAMBDA m : ~ContainsDelta(m.method))) |->
                       "raw"]
               ELSE <<>>)

\* config_callback (__main__.py, lines 100-109) and the test of the loader:
\* load the settings from the file.
LoadSettings ==
    /\ bot.sup = "config"
    /\ bot' = [bot EXCEPT !.settings = load_settings_from_toml(bot.config),
                          !.sup = IF scenario = "bot" THEN "start" ELSE "loaded"]
    /\ UNCHANGED <<scenario, logOn, calls, procVars, clientVars, pc, loc, out>>

\* run_bot (__main__.py, lines 838-843 and 862-864): codex.start() has
\* ended; the application is built and polls, or the failure is reported.
RunBotStarted ==
    /\ bot.sup = "start"
    /\ pc["t1"] = "idle"
    /\ out["t1"].op = "start"
    /\ bot' = IF out["t1"].kind = "return"
              THEN [bot EXCEPT !.sup = "polling", !.verbose = FALSE, !.pending = FALSE,
                               !.update = NoUpdate, !.stage = "idle", !.replies = <<>>]
              ELSE [bot EXCEPT !.sup = "stop_retry"]
    /\ out' = [out EXCEPT !["t1"] = NoOut]
    /\ loc' = [loc EXCEPT !["t1"] = Locals("")]
    /\ UNCHANGED <<scenario, logOn, calls, procVars, clientVars, pc>>

\* run_bot (__main__.py, lines 853-864): run_polling ends, by returning or
\* with KeyboardInterrupt (retry FALSE) or with another exception. No
\* handler is running; what ends run_polling is Telegram's or the user's
\* doing, not the client's. The application and its bot_data are left behind.
RunPollingEnds ==
    /\ bot.sup = "polling"
    /\ bot.stage = "idle"
    /\ \E retry \in BOOLEAN :
         bot' = [bot EXCEPT !.sup = IF retry THEN "stop_retry" ELSE "stop_exit",
                            !.verbose = FALSE, !.pending = FALSE,
                            !.update = NoUpdate, !.replies = <<>>]
    /\ UNCHANGED <<scenario, logOn, calls, procVars, clientVars, pc, loc, out>>

\* run_bot (__main__.py, lines 836-838 and 858-866): codex.stop() of the
\* finally clause has ended; the function returns, or the loop starts the
\* client again.
RunBotStopped ==
    /\ bot.sup \in {"stop_retry", "stop_exit"}
    /\ pc["t1"] = "idle"
    /\ out["t1"].op = "stop"
    /\ bot' = [bot EXCEPT !.sup = IF bot.sup = "stop_retry" THEN "start" ELSE "done"]
    /\ out' = [out EXCEPT !["t1"] = NoOut]
    /\ loc' = [loc EXCEPT !["t1"] = Locals("")]
    /\ UNCHANGED <<scenario, logOn, calls, procVars, clientVars, pc>>

\* The application hands an update to its handler, which runs to its first
\* call of the client or to its end: handle_message, handle_start_command,
\* handle_verbose_command, handle_status_command, handle_model_command and
\* handle_model_callback (telegram_handlers.py, lines 125-186 and 258-323).
\* Updates are handled one at a time, and only those whose calls the bound
\* on calls leaves room for.
Receive(t) ==
    /\ t = "t2"
    /\ bot.sup = "polling"
    /\ bot.stage = "idle"
    /\ pc[t] = "idle"
    /\ \E u \in Updates :
         LET Begin(b) ==
            LET base == [b EXCEPT !.update = u, !.replies = <<>>, !.stage = "idle"]
            IN CASE u.kind = "text" ->
                      IF u.data = "blank" THEN base
                      ELSE IF ~Allowed(u) THEN base
                      ELSE IF b.pending THEN [base EXCEPT !.stage = "set_model"]
                      ELSE [base EXCEPT !.stage = "ask"]
                 [] u.kind = "start" ->
                      IF ~Allowed(u) THEN base ELSE [base EXCEPT !.stage = "ask"]
                 [] u.kind = "verbose" ->
                      IF ~Allowed(u) THEN base
                      ELSE [base EXCEPT !.verbose = ~b.verbose, !.replies = <<"text">>]
                 [] u.kind = "status" ->
                      IF ~Allowed(u) THEN base ELSE [base EXCEPT !.stage = "status"]
                 [] u.kind = "model" ->
                      IF ~Allowed(u) THEN base ELSE [base EXCEPT !.stage = "list"]
                 [] u.kind = "callback" ->
                      IF ~Allowed(u) THEN [base EXCEPT !.replies = <<"query_answer">>]
                      ELSE IF u.data = "model:cancel"
                      THEN [base EXCEPT !.pending = FALSE, !.replies = <<"query_answer", "edit">>]
                      ELSE IF u.data = "model:free_text"
                      THEN [base EXCEPT !.pending = TRUE, !.replies = <<"query_answer", "edit">>]
                      ELSE [base EXCEPT !.stage = "cb_list"]
         IN
         \E b \in {Begin(bot)} :
            /\ calls + (IF b.stage \in {"list", "cb_list"} THEN 2
                        ELSE IF b.stage = "idle" THEN 0 ELSE 1) <= MaxCalls
            /\ bot' = b
    /\ out' = [out EXCEPT ![t] = NoOut]
    /\ loc' = [loc EXCEPT ![t] = Locals("")]
    /\ UNCHANGED <<scenario, logOn, calls, procVars, clientVars, pc>>

\* The call a handler awaited has ended as o with the locals l, which are
\* gone once the handler has taken the outcome: the handler
\* goes on to its next call or to its end (telegram_handlers.py, lines
\* 109-122, 140-147, 186-229, 269-287 and 326-346). An exception that no
\* handler catches goes to handle_error, which prints it.
Resume(t) ==
    /\ t = "t2"
    /\ bot.stage # "idle"
    /\ pc[t] = "idle"
    /\ {out[t].op} = WantOf(bot.stage)
    /\ LET After(b, o, l) ==
            LET done == [b EXCEPT !.stage = "idle"]
            IN CASE b.stage = "ask" ->
                      [done EXCEPT !.replies = UserInputReplies(o, l.unprocessed, b.verbose)]
                 [] b.stage = "set_model" ->
                      [done EXCEPT !.pending = FALSE, !.replies = <<"text">>]
                 [] b.stage = "status" ->
                      IF o.kind = "raise" THEN done ELSE [done EXCEPT !.replies = <<"text">>]
                 [] b.stage = "list" ->
                      IF o.kind = "raise" THEN [done EXCEPT !.replies = <<"error">>]
                      ELSE IF o.models = <<>> THEN [b EXCEPT !.stage = "get_none"]
                      ELSE [b EXCEPT !.stage = "get"]
                 [] b.stage = "get_none" -> [done EXCEPT !.replies = <<"text">>]
                 [] b.stage = "get" -> [done EXCEPT !.replies = <<"menu">>]
                 [] b.stage = "cb_list" ->
                      IF o.kind = "raise"
                      THEN [done EXCEPT !.replies = <<"query_answer", "edit">>]
                      ELSE IF \E i \in DOMAIN o.models : o.models[i].model_id = b.update.arg
                      THEN [b EXCEPT !.stage = "cb_set"]
                      ELSE [b EXCEPT !.stage = "cb_get", !.replies = <<"query_answer">>]
                 [] b.stage = "cb_get" -> [done EXCEPT !.replies = <<"query_answer", "edit">>]
                 [] b.stage = "cb_set" ->
                      [done EXCEPT !.pending = FALSE, !.replies = <<"query_answer", "edit">>]
       IN bot' = After(bot, out[t], loc[t])
    /\ out' = [out EXCEPT ![t] = NoOut]
    /\ loc' = [loc EXCEPT ![t] = Locals("")]
    /\ UNCHANGED <<scenario, logOn, calls, procVars, clientVars, pc>>

\* ------------------------------------------------------------ specification
Next ==
    \/ \E t \in Threads : StartCall(t)
    \/ \E t \in Threads : StartNotify(t)
    \/ \E t \in Threads : StopCall(t)
    \/ \E t \in Threads : StopWait(t)
    \/ \E t \in Threads : StopKillWait(t)
    \/ ProcExit
    \/ \E t \in Threads : RequestAlloc(t)
    \/ \E t \in Threads : RequestSend(t)
    \/ \E t \in Threads : RequestRead(t)
    \/ \E t \in Threads : AskCall(t)
    \/ \E t \in Threads : AskStream(t)
    \/ \E t \in Threads : ReadRateLimitsCall(t)
    \/ \E t \in Threads : ReadRateLimitsStore(t)
    \/ \E t \in Threads : ListModelsCall(t)
    \/ \E t \in Threads : GetModel(t)
    \/ \E t \in Threads : SetModel(t)
    \/ \E t \in Threads : GetRateLimitsSnapshot(t)
    \/ \E t \in Threads : GetLatestTokenUsage(t)
    \/ \E t \in Threads : CallerScribbles(t)
    \/ \E t \in Threads : StatusCommand(t)
    \/ \E t \in Threads : StatusAcquire(t)
    \/ \E t \in Threads : StatusReply(t)
    \/ LoadSettings
    \/ RunBotStarted
    \/ RunPollingEnds
    \/ RunBotStopped
    \/ \E t \in Threads : Receive(t)
    \/ \E t \in Threads : Resume(t)

\* One thread that calls every method, or run_bot with its worker thread, or
\* the loader of the settings with any file.
InitCalls == InitWith("calls", FALSE) \/ InitWith("bot", FALSE) \/ InitWith("toml", FALSE)

\* Two threads, or one thread that calls every method.
Init == InitWith("threads", FALSE) \/ InitCalls
Spec == Init /\ [][Next]_vars

\* One thread and the messages of a turn, or one thread that calls every method.
InitTurn == InitWith("turn", FALSE) \/ InitCalls
SpecTurn == InitTurn /\ [][Next]_vars

\* One thread and any reply on the wire, or one thread that calls every method.
InitWire == InitWith("wire", FALSE) \/ InitCalls
SpecWire == InitWire /\ [][Next]_vars

\* One thread, tracked and untracked notifications, with and without a log
\* file, or one thread that calls every method.
InitLog == (\E logging \in BOOLEAN : InitWith("log", logging)) \/ InitCalls
SpecLog == InitLog /\ [][Next]_vars

\* One thread that starts, stops and asks, each subprocess with a thread id
\* of its own, or one thread that calls every method.
InitRestart == InitWith("restart", FALSE) \/ InitCalls
SpecRestart == InitRestart /\ [][Next]_vars

\* One thread and the notifications the trackers look for, or one thread that
\* calls every method.
InitTrack == InitWith("track", FALSE) \/ InitCalls
SpecTrack == InitTrack /\ [][Next]_vars

\* One thread, answers with rate limits in every shape and a caller that
\* writes into what it is returned, or one thread that calls every method.
InitRates == InitWith("rates", FALSE) \/ InitCalls
SpecRates == InitRates /\ [][Next]_vars

\* One thread running turns and one answering /status and taking snapshots,
\* or one thread that calls every method.
InitStatus == InitWith("status", FALSE) \/ InitCalls
SpecStatus == InitStatus /\ [][Next]_vars

\* One thread running turns and one refreshing the rate limits, or one
\* thread that calls every method.
InitRefresh == InitWith("refresh", FALSE) \/ InitCalls
SpecRefresh == InitRefresh /\ [][Next]_vars

\* One thread starting the client and running turns while the other stops
\* it, or one thread that calls every method.
InitKill == InitWith("kill", FALSE) \/ InitCalls

\* A thread inside _read_message is scheduled again: readline returns once
\* the subprocess has written a line or closed its output, and no thread is
\* starved of the processor.
ReadersRun == \A t \in Threads : WF_vars(RequestRead(t)) /\ WF_vars(AskStream(t))
SpecKill == InitKill /\ [][Next]_vars /\ ReadersRun

\* run_bot and the threads of the process are scheduled again and again:
\* what one of them can do next, it does. Nothing is assumed of the
\* updates that arrive, of what ends run_polling, or of the subprocess.
AllRun ==
    /\ WF_vars(LoadSettings \/ RunBotStarted \/ RunBotStopped)
    /\ \A t \in Threads :
          WF_vars(\/ StartCall(t) \/ StartNotify(t) \/ StopCall(t) \/ StopWait(t)
                  \/ StopKillWait(t) \/ RequestAlloc(t) \/ RequestSend(t)
                  \/ RequestRead(t) \/ AskCall(t) \/ AskStream(t)
                  \/ ReadRateLimitsCall(t) \/ ReadRateLimitsStore(t)
                  \/ ListModelsCall(t) \/ GetModel(t) \/ SetModel(t)
                  \/ StatusCommand(t) \/ StatusAcquire(t) \/ StatusReply(t)
                  \/ Resume(t))
SpecBot == InitCalls /\ [][Next]_vars /\ AllRun

\* ------------------------------------------------------------ properties
\* The thread t takes a step of _request's loop that reads a message.
RequestReads(t) == pc[t] = "req_read" /\ loc'[t].msg # loc[t].msg

\* The thread t leaves _request with a value: the call goes on, or ends with
\* an outcome that is not an exception of _request.
RequestReturns(t) ==
    /\ pc[t] = "req_read"
    /\ pc'[t] # "req_read"
    /\ out'[t].err.kind \notin {"not_running", "eof", "remote", "type"}

\* C1: _request returns the result of the first message whose id is the
\* request's id, and the empty object when that message has no result: a
\* _request that returns has just read a message with its id and returns that
\* message's result, and a _request that reads a message with its id does not
\* read on.
C1_Action ==
    \A t \in Threads :
       /\ RequestReturns(t) =>
             /\ loc'[t].msg.raw = "obj"
             /\ loc'[t].msg.id = loc[t].req_id
             /\ loc'[t].msg.error.kind = "absent"
             /\ loc'[t].result = IF loc'[t].msg.result.kind = "absent"
                                 THEN EmptyObj ELSE loc'[t].msg.result
       /\ RequestReads(t) /\ loc'[t].msg.id = loc[t].req_id => pc'[t] # "req_read"
       /\ RequestReads(t) /\ loc'[t].msg.id # loc[t].req_id =>
             pc'[t] = "req_read" /\ loc'[t].result = loc[t].result

C1_FirstMatchingResult == [][C1_Action]_vars

\* C1 happens: an ask whose turn/start was answered without a result, after a
\* message with another id had been read and passed over.
C1_Witness ==
    \E t \in Threads :
       /\ pc[t] = "idle"
       /\ out[t] = Raised("ask", NoTurnIdErr)
       /\ loc[t].msg.id = loc[t].req_id
       /\ loc[t].msg.result.kind = "absent"
       /\ loc[t].result = EmptyObj
       /\ \E i \in 1..Len(loc[t].unprocessed) :
             loc[t].unprocessed[i].id \notin {NoId, loc[t].req_id}

\* C2: a message with the request's id that carries an error field, null or
\* not, with or without a result, makes _request raise "<method> failed: ..."
\* with that error; no value is returned and the caller's work after the
\* request is not done.
C2_Action ==
    \A t \in Threads :
       RequestReads(t) /\ loc'[t].msg.id = loc[t].req_id
                       /\ loc'[t].msg.error.kind # "absent" =>
          /\ pc'[t] = "idle"
          /\ out'[t] = [NoOut EXCEPT !.op = loc[t].op, !.kind = "raise",
                                     !.err = [NoErr EXCEPT !.kind = "remote",
                                                !.method = loc[t].method,
                                                !.payload = loc'[t].msg.error]]
          /\ loc'[t].result = loc[t].result
          /\ loc'[t].turn_id = loc[t].turn_id
          /\ thread_id' = thread_id

C2_ErrorRaises == [][C2_Action]_vars

\* C2 happens: a request failed on a response that carried a null error
\* next to a result.
C2_Witness ==
    \E t \in Threads :
       /\ pc[t] = "idle"
       /\ out[t].kind = "raise"
       /\ out[t].err.kind = "remote"
       /\ loc[t].msg.id = loc[t].req_id
       /\ loc[t].msg.error = NullErr
       /\ loc[t].msg.result.kind = "obj"

\* C3: at most one protocol operation is between sending its request and
\* finishing reading its reply: at most one thread waits for the reply to a
\* request or streams a turn. start() takes no lock, so this fails.
C3_OneOperationInFlight ==
    Cardinality({t \in Threads : pc[t] \in {"req_read", "ask_stream"}}) <= 1

\* C4: every turn/start that was sent carries a thread id and follows an
\* initialize, an initialized and a thread/start sent in that order to one
\* subprocess, and a start() has succeeded (the client has a thread id).
C4_Order ==
    \A i \in 1..Len(sent) :
       sent[i].method = "turn/start" =>
          /\ thread_id # ""
          /\ sent[i].threadId # ""
          /\ \E a, b, c \in 1..(i - 1) :
                /\ a < b /\ b < c
                /\ sent[a].method = "initialize"
                /\ sent[b].method = "initialized"
                /\ sent[c].method = "thread/start"
                /\ sent[a].gen = sent[b].gen /\ sent[b].gen = sent[c].gen

\* The thread t calls ask().
AskCalled(t) ==
    /\ pc[t] = "idle"
    /\ calls' # calls
    /\ loc'[t].op = "ask"
    /\ <<pc[t], loc[t], out[t]>>' # <<pc[t], loc[t], out[t]>>

\* C4: ask() called without a running subprocess or before a thread id was
\* stored fails with the not-running error or 'No thread initialized', and
\* sends and reads nothing.
C4_Refuse ==
    \A t \in Threads :
       AskCalled(t) /\ (thread_id = "" \/ proc = 0 \/ proc \notin alive) =>
          /\ pc'[t] = "idle"
          /\ out'[t] = [NoOut EXCEPT !.op = "ask", !.kind = "raise",
                          !.err = [NoErr EXCEPT !.kind =
                                     IF proc = 0 \/ proc \notin alive
                                     THEN "not_running" ELSE "no_thread"]]
          /\ sent' = sent
          /\ lines' = lines
          /\ next_id' = next_id

C4_HandshakeBeforeTurn == []C4_Order /\ [][C4_Refuse]_vars

\* C4 happens: a turn/start was sent by a client that ran the handshake
\* twice, the first time without success.
C4_Witness ==
    /\ \E i \in 1..Len(sent) : sent[i].method = "turn/start"
    /\ Cardinality({i \in 1..Len(sent) : sent[i].method = "initialize"}) = 2
    /\ Cardinality({i \in 1..Len(sent) : sent[i].method = "thread/start"}) = 1

\* The thread t takes a step of the streaming loop that reads a message and
\* changes what ask() holds.
StreamReads(t) == pc[t] = "ask_stream" /\ loc'[t] # loc[t]

\* msg is a delta of the turn turn_id that carries a string.
IsTurnDelta(msg, turn_id) ==
    /\ msg.method = "item/agentMessage/delta"
    /\ msg.params.isObj
    /\ msg.params.turnId = turn_id
    /\ msg.params.deltaIsStr

\* C5: the text ask() accumulates is the concatenation, in the order read, of
\* the string deltas whose turnId is the current turn's: the streaming loop
\* starts with no text, a string delta of the current turn is appended at the
\* end, and no other message changes the text.
C5_Action ==
    \A t \in Threads :
       /\ pc[t] # "ask_stream" /\ pc'[t] = "ask_stream" => loc'[t].chunks = <<>>
       /\ StreamReads(t) =>
             loc'[t].chunks = IF IsTurnDelta(loc'[t].msg, loc[t].turn_id)
                              THEN Append(loc[t].chunks, loc'[t].msg.params.delta)
                              ELSE loc[t].chunks

C5_TurnDeltasInOrder == [][C5_Action]_vars

\* C5 happens: two different deltas of the turn were accumulated and the last
\* message read was a delta of another turn.
C5_Witness ==
    \E t \in Threads :
       /\ pc[t] = "ask_stream"
       /\ loc[t].chunks = << <<"a">>, <<" ", "b">> >>
       /\ loc[t].msg = Delta("tn2", <<"c">>)

\* The last message the ask() of locals l read is the turn/completed of its turn.
TurnCompletedRead(l) ==
    /\ l.op = "ask"
    /\ l.turn_id # ""
    /\ l.msg.method = "turn/completed"
    /\ l.msg.params.isObj
    /\ l.msg.params.turn.isObj
    /\ l.msg.params.turn.id = l.turn_id

\* C6: ask() returns exactly when it has read the turn/completed of its turn
\* with a status other than failed, and the reply is the trimmed accumulated
\* text if that is not empty, else the completion's agent message if that is
\* not blank, else the placeholder.
C6_ReplySelection ==
    \A t \in Threads :
       LET l == loc[t]
           final == Strip(Join(l.chunks))
           message == l.msg.params.turn.agentMessage
           ended == TurnCompletedRead(l) /\ l.msg.params.turn.status # "failed"
       IN /\ ended =>
               /\ pc[t] = "idle"
               /\ out[t].kind = "return"
               /\ out[t].reply = IF final # <<>> THEN final
                                 ELSE IF Strip(message) # <<>> THEN message
                                 ELSE Placeholder
          /\ out[t].op = "ask" /\ out[t].kind = "return" => ended

\* C6 happens: a turn without accumulated text completed with an agent
\* message, which is the reply.
C6_Witness ==
    \E t \in Threads :
       /\ out[t].op = "ask" /\ out[t].kind = "return"
       /\ loc[t].chunks = <<>>
       /\ loc[t].msg.params.turn.agentMessage = <<"f">>
       /\ out[t].reply = <<"f">>

\* C7: when ask() reads the turn/completed of its turn with status failed it
\* raises, with the completion's own error message if it has one, else with
\* the last error message streamed for the turn, else with the unknown-error
\* text ...
C7_Failed ==
    \A t \in Threads :
       LET l == loc[t]
           own == extract_error_message(l.msg.params.turn.error)
       IN TurnCompletedRead(l) /\ l.msg.params.turn.status = "failed" =>
             /\ pc[t] = "idle"
             /\ out[t].kind = "raise"
             /\ out[t].err = [NoErr EXCEPT !.kind = "turn", !.text =
                                IF own # Unknown THEN own
                                ELSE IF l.turn_error_message # <<>>
                                THEN l.turn_error_message ELSE Unknown]

\* ... where the last error message streamed for the turn changes only when
\* an error notification of the turn is read, to that notification's message.
C7_LastError ==
    \A t \in Threads :
       /\ pc[t] # "ask_stream" /\ pc'[t] = "ask_stream" =>
             loc'[t].turn_error_message = <<>>
       /\ StreamReads(t) /\ loc'[t].turn_error_message # loc[t].turn_error_message =>
             /\ loc'[t].msg.method = "error"
             /\ loc'[t].msg.params.turnId = loc[t].turn_id
             /\ loc'[t].turn_error_message =
                   extract_error_message(loc'[t].msg.params.error)

C7_FailedTurnMessage == []C7_Failed /\ [][C7_LastError]_vars

\* C7 happens: a turn failed without an error of its own after an error had
\* been streamed, and ask() raised with the streamed one.
C7_Witness ==
    \E t \in Threads :
       /\ TurnCompletedRead(loc[t])
       /\ loc[t].msg.params.turn.status = "failed"
       /\ loc[t].msg.params.turn.error = AbsentErr
       /\ loc[t].turn_error_message # <<>>
       /\ out[t].err.text = loc[t].turn_error_message

\* C8: an error notification of the current turn is remembered; it ends
\* ask() with its message exactly when willRetry is false, and otherwise the
\* loop goes on with the text accumulated so far. ask() raises a turn error
\* only on such a notification or on the failed completion of its turn.
C8_Action ==
    \A t \in Threads :
       LET m == loc'[t].msg
           text == extract_error_message(m.params.error)
           turnError == /\ m.method = "error" /\ m.params.isObj
                        /\ m.params.turnId = loc[t].turn_id
       IN /\ StreamReads(t) /\ turnError =>
               /\ loc'[t].turn_error_message = text
               /\ loc'[t].chunks = loc[t].chunks
               /\ IF m.params.willRetry = "false"
                  THEN /\ pc'[t] = "idle"
                       /\ out'[t] = [NoOut EXCEPT !.op = "ask", !.kind = "raise",
                                        !.err = [NoErr EXCEPT !.kind = "turn",
                                                              !.text = text]]
                  ELSE /\ pc'[t] = "ask_stream"
                       /\ out'[t] = out[t]
          /\ StreamReads(t) /\ out'[t].err.kind = "turn" =>
               \/ turnError /\ m.params.willRetry = "false"
               \/ TurnCompletedRead(loc'[t]) /\ m.params.turn.status = "failed"

C8_FatalOnlyWhenNotRetried == [][C8_Action]_vars

\* C8 happens: ask() returned the answer of a turn for which an error without
\* willRetry had been streamed.
C8_Witness ==
    \E t \in Threads :
       /\ out[t].op = "ask" /\ out[t].kind = "return"
       /\ loc[t].turn_error_message = <<"e2">>
       /\ out[t].reply = <<"a">>

\* The thread t reads a message that the call in progress does not wait for:
\* in _request a message with another id, in the streaming loop a message
\* that is no delta, error or completion of the current turn.
ReadsOther(t) ==
    LET m == loc'[t].msg
        ofTurn == /\ m.method \in {"item/agentMessage/delta", "error"}
                  /\ m.params.turnId = loc[t].turn_id
        completes == /\ m.method = "turn/completed"
                     /\ m.params.turn.isObj
                     /\ m.params.turn.id = loc[t].turn_id
    IN /\ pc[t] \in {"req_read", "ask_stream"}
       /\ lines' > lines
       /\ out'[t].err.kind \notin {"not_running", "eof"}
       /\ pc[t] = "req_read" => m.id # loc[t].req_id
       /\ pc[t] = "ask_stream" => ~(m.method # "" /\ m.params.isObj /\ (ofTurn \/ completes))

\* msg is a notification that a passive tracker stores.
IsTracked(msg) ==
    /\ msg.params.isObj
    /\ \/ msg.method = "account/rateLimits/updated" /\ msg.params.rateLimits.isObj
       \/ /\ msg.method = "codex/event/token_count"
          /\ msg.params.msgIsObj /\ msg.params.info.isObj

\* C9 as stated: every message read that the call does not wait for updates
\* a passive tracker, or is written to the log, or is appended to the
\* unprocessed list.
C9_Accounted ==
    \A t \in Threads :
       ReadsOther(t) =>
          \/ IsTracked(loc'[t].msg)
          \/ log' # log
          \/ loc'[t].unprocessed # loc[t].unprocessed

C9_NeverDropped == [][C9_Accounted]_vars

\* C9: every message read that the call does not wait for goes through both
\* trackers, is written to the log exactly when a log file is configured, and
\* is appended to the unprocessed list exactly when the call is an ask() and
\* the message is noteworthy or, in the streaming loop, has no method or no
\* object params. A message that is none of these leaves no trace.
C9_Routed ==
    \A t \in Threads :
       LET m == loc'[t].msg
           noteworthy == /\ m.method \notin {"turn/completed", "account/rateLimits/updated",
                                             "codex/event/token_count",
                                             "thread/tokenUsage/updated"}
                         /\ ~ContainsDelta(m.method)
           appended == /\ loc[t].op = "ask"
                       /\ \/ noteworthy
                          \/ pc[t] = "ask_stream" /\ ~m.params.isObj
       IN ReadsOther(t) =>
             /\ m.method = "account/rateLimits/updated" /\ IsTracked(m) =>
                   /\ m.params.rateLimits.limitId \in DOMAIN rate_limits_by_id'
                   /\ rate_limits_by_id'[m.params.rateLimits.limitId] = m.params.rateLimits
             /\ m.method = "codex/event/token_count" /\ IsTracked(m) =>
                   latest_token_usage' = m.params.info
             /\ ~IsTracked(m) => /\ rate_limits_by_id' = rate_limits_by_id
                                 /\ latest_token_usage' = latest_token_usage
             /\ logOn => log'.last = m /\ log'.n > log.n
             /\ ~logOn => log' = log
             /\ loc'[t].unprocessed = IF appended THEN Append(loc[t].unprocessed, m)
                                      ELSE loc[t].unprocessed

C9_RoutedOrDropped == [][C9_Routed]_vars

\* C9 happens: without a log file, start() has read and passed over a
\* notification that no tracker stores, and nothing records it.
C9_Witness ==
    \E t \in Threads :
       /\ ~logOn
       /\ pc[t] = "req_read"
       /\ loc[t].op = "start"
       /\ loc[t].msg = Notif("item/started")
       /\ rate_limits_by_id = NoEntries
       /\ latest_token_usage = NoInfo
       /\ log.n = 0

\* C10: a stop() signals at most once with terminate and at most once, after
\* that, with kill, waits at most once after each, and does not raise.
C10_Bounded ==
    \A t \in Threads :
       /\ loc[t].op = "stop" =>
             /\ loc[t].terminates <= 1
             /\ loc[t].kills <= loc[t].terminates
             /\ loc[t].waits <= loc[t].terminates + loc[t].kills
       /\ out[t].op = "stop" => out[t].kind = "return"

\* C10: a stop() on a client without a subprocess, or whose subprocess has
\* exited, returns at once and changes nothing; and a stop() that signalled
\* returns with the subprocess exited, so that the next stop() is of this kind.
C10_NoOp ==
    \A t \in Threads :
       /\ pc[t] = "idle" /\ calls' # calls /\ loc'[t].op = "stop"
             /\ pc'[t] = "idle" /\ (proc = 0 \/ proc \notin alive) =>
             /\ out'[t] = [NoOut EXCEPT !.op = "stop", !.kind = "return"]
             /\ loc'[t].terminates = 0 /\ loc'[t].kills = 0 /\ loc'[t].waits = 0
             /\ UNCHANGED <<proc, alive, spawned, lines, sent, next_id, lock,
                            thread_id, model, rate_limits_by_id,
                            latest_token_usage, log>>
       /\ pc[t] \in {"stop_wait", "stop_kill_wait"} /\ pc'[t] = "idle" =>
             proc' \notin alive'

C11_IdsIncrease ==
    \A i, j \in 1..Len(sent) :
       i < j /\ sent[i].id # NoId /\ sent[j].id # NoId => sent[i].id < sent[j].id

\* C12 as stated: once the client has a thread id, it never changes.
C12_AssignedOnce == [][thread_id # "" => thread_id' = thread_id]_vars

\* C12: the thread id is empty until a start() succeeds, and it changes
\* exactly when a start() reads the answer to its thread/start with a thread
\* id in it, to that id: a restart replaces it, and a failed start(), stop(),
\* ask() and the request-based calls leave it as it is.
C12_Action ==
    /\ thread_id' # thread_id =>
          \E t \in Threads :
             /\ pc[t] = "req_read" /\ pc'[t] = "idle"
             /\ loc[t].op = "start" /\ loc[t].method = "thread/start"
             /\ out'[t] = [NoOut EXCEPT !.op = "start", !.kind = "return"]
    /\ \A t \in Threads :
          pc[t] = "req_read" /\ pc'[t] = "idle" /\ out'[t].op = "start"
              /\ out'[t].kind = "return" =>
             /\ loc'[t].msg.id = loc[t].req_id
             /\ loc'[t].msg.result.threadId # ""
             /\ thread_id' = loc'[t].msg.result.threadId

C12_SetByEachStart == [][C12_Action]_vars

\* C12 happens: a turn was started on the thread of the first subprocess and
\* the client now holds the thread id of the second.
C12_Witness ==
    /\ thread_id = "th2"
    /\ \E i \in 1..Len(sent) : sent[i].method = "turn/start" /\ sent[i].threadId = "th1"

\* C13: at most one subprocess spawned by the client is alive. start() spawns
\* a subprocess without looking at the one it has, so this fails.
C13_OneSubprocess == Cardinality(alive) <= 1

\* The thread t reads a message, which its local msg then holds.
ReadsMessage(t) ==
    /\ pc[t] \in {"req_read", "ask_stream"}
    /\ lines' > lines
    /\ out'[t].err.kind \notin {"not_running", "eof"}

\* msg is an account/rateLimits/updated message with a rate-limit object.
IsRateLimitsUpdate(msg) ==
    /\ msg.method = "account/rateLimits/updated"
    /\ msg.params.isObj
    /\ msg.params.rateLimits.isObj

\* C14: the rate-limit mapping is empty before any message is read; an update
\* read for a limit id (the absent id being a key of its own) sets the entry
\* of that id to the update's rate-limit object and leaves every other entry
\* as it is, and any other message read leaves the mapping as it is; the
\* snapshot returned is the mapping.
C14_Action ==
    \A t \in Threads :
       ReadsMessage(t) =>
          LET m == loc'[t].msg
              id == m.params.rateLimits.limitId
          IN IF IsRateLimitsUpdate(m)
             THEN /\ DOMAIN rate_limits_by_id' = DOMAIN rate_limits_by_id \cup {id}
                  /\ rate_limits_by_id'[id] = m.params.rateLimits
                  /\ \A k \in DOMAIN rate_limits_by_id \ {id} :
                        rate_limits_by_id'[k] = rate_limits_by_id[k]
             ELSE rate_limits_by_id' = rate_limits_by_id

C14_State ==
    /\ lines = 0 => rate_limits_by_id = NoEntries
    /\ \A t \in Threads :
          pc[t] = "idle" /\ out[t].op = "get_rate_limits_snapshot" /\ ~out[t].scribbled =>
             out[t].kind = "return" /\ out[t].rate_limits = rate_limits_by_id

C14_LastUpdatePerLimit == []C14_State /\ [][C14_Action]_vars

\* C14 happens: after three lines, the last an update of A, the mapping has
\* the entries A, with the value of that update, and B.
C14_Witness ==
    \E t \in Threads :
       /\ lines = 3
       /\ loc[t].msg = RateLimitsUpdated("A", 2)
       /\ DOMAIN rate_limits_by_id = {"A", "B"}
       /\ rate_limits_by_id["A"] = RateLimits("A", 2)
       /\ rate_limits_by_id["B"] = RateLimits("B", 1)

\* msg is a codex/event/token_count message with an object at params.msg.info.
IsTokenCount(msg) ==
    /\ msg.method = "codex/event/token_count"
    /\ msg.params.isObj
    /\ msg.params.msgIsObj
    /\ msg.params.info.isObj

\* C15: the latest token usage is absent before any message is read and
\* changes only when a token-count message with an info object is read, to
\* that object as a whole; get_latest_token_usage() returns it.
C15_Action ==
    /\ \A t \in Threads :
          ReadsMessage(t) =>
             latest_token_usage' = IF IsTokenCount(loc'[t].msg)
                                   THEN loc'[t].msg.params.info
                                   ELSE latest_token_usage
    /\ latest_token_usage' # latest_token_usage =>
          \E t \in Threads : ReadsMessage(t) /\ IsTokenCount(loc'[t].msg)

C15_State ==
    /\ lines = 0 => latest_token_usage = NoInfo
    /\ \A t \in Threads :
          pc[t] = "idle" /\ out[t].op = "get_latest_token_usage" /\ ~out[t].scribbled =>
             out[t].kind = "return" /\ out[t].token_usage = latest_token_usage

C15_LatestTokenUsage == []C15_State /\ [][C15_Action]_vars

\* C15 happens: get_latest_token_usage() returned the info object of a
\* token-count message that start() had read.
C15_Witness ==
    \E t \in Threads :
       /\ pc[t] = "idle"
       /\ out[t].op = "get_latest_token_usage"
       /\ out[t].token_usage = InfoLast(2, 1)
       /\ \E i \in 1..Len(sent) : sent[i].method = "initialize"

\* C16: read_rate_limits() sends account/rateLimits/read and, with the result
\* of the request: when the result has a rateLimitsByLimitId object, the
\* usable entries are its object-valued entries under their keys, otherwise
\* they are the single rateLimits object, if there is one, under its limitId;
\* with at least one usable entry the client's mapping becomes exactly these
\* entries and they are returned, with none the mapping is left as it is and
\* returned.
C16_Action ==
    \A t \in Threads :
       pc[t] = "rrl_store" /\ pc'[t] = "idle" =>
          LET r == loc[t].result
              keys == IF r.kind = "obj" /\ r.byId.isObj
                      THEN {k \in DOMAIN r.byId.map : r.byId.map[k].isObj}
                      ELSE IF r.kind = "obj" /\ r.single.isObj
                      THEN {r.single.limitId} ELSE {}
              entry(k) == IF r.byId.isObj THEN r.byId.map[k] ELSE r.single
          IN /\ out'[t].kind = "return"
             /\ IF keys # {}
                THEN /\ DOMAIN rate_limits_by_id' = keys
                     /\ \A k \in keys : rate_limits_by_id'[k] = entry(k)
                ELSE rate_limits_by_id' = rate_limits_by_id
             /\ out'[t].rate_limits = rate_limits_by_id'

C16_State ==
    \A t \in Threads :
       loc[t].op = "read_rate_limits" /\ pc[t] \in {"req_read", "rrl_store"} =>
          \E i \in 1..Len(sent) :
             sent[i].id = loc[t].req_id /\ sent[i].method = "account/rateLimits/read"

C16_ReadRateLimits == []C16_State /\ [][C16_Action]_vars

\* C16 happens: read_rate_limits() returned the one object-valued entry of a
\* mapping whose other entry is no object, and it is the client's mapping.
C16_Witness ==
    \E t \in Threads :
       /\ pc[t] = "idle"
       /\ out[t].op = "read_rate_limits" /\ out[t].kind = "return"
       /\ DOMAIN loc[t].result.byId.map = {"K", "B"}
       /\ out[t].rate_limits = ("K" :> RateLimits("A", 3))
       /\ rate_limits_by_id = ("K" :> RateLimits("A", 3))

\* C17: what a caller writes into a value that get_rate_limits_snapshot(),
\* read_rate_limits() or get_latest_token_usage() returned does not reach the
\* client's mapping or its latest usage, so that later snapshots are as they
\* would have been.
C17_Action ==
    \A t \in Threads :
       pc[t] = "idle" /\ ~out[t].scribbled /\ out'[t].scribbled =>
          /\ rate_limits_by_id' = rate_limits_by_id
          /\ latest_token_usage' = latest_token_usage

C17_State ==
    \A t \in Threads :
       out[t].op \in {"get_rate_limits_snapshot", "read_rate_limits",
                      "get_latest_token_usage"} => ~out[t].shared

C18_State ==
    \A t \in Active :
       pc[t] = "idle" /\ calls < MaxCalls =>
          /\ "get_rate_limits_snapshot" \in Methods(t) => ENABLED GetRateLimitsSnapshot(t)
          /\ "get_latest_token_usage" \in Methods(t) => ENABLED GetLatestTokenUsage(t)

C18_Action ==
    \A t \in Threads :
       pc[t] = "idle" /\ out'[t] # out[t]
           /\ out'[t].op \in {"get_rate_limits_snapshot", "get_latest_token_usage"}
           /\ ~out'[t].scribbled =>
          /\ pc'[t] = "idle"
          /\ out'[t].kind = "return"
          /\ out'[t].rate_limits =
                IF out'[t].op = "get_rate_limits_snapshot" THEN rate_limits_by_id ELSE NoEntries
          /\ out'[t].token_usage =
                IF out'[t].op = "get_latest_token_usage" THEN latest_token_usage ELSE NoInfo
          /\ UNCHANGED <<lock, proc, alive, lines, sent, next_id, rate_limits_by_id,
                         latest_token_usage>>
          /\ \A u \in Threads \ {t} : pc'[u] = pc[u] /\ loc'[u] = loc[u] /\ out'[u] = out[u]

C18_SnapshotsNeverWait == []C18_State /\ [][C18_Action]_vars

\* C18 happens: one thread holds the main lock in the middle of a turn, and
\* another was returned a snapshot with the update read during that turn.
C18_Witness ==
    \E t, u \in Threads :
       /\ pc[u] = "ask_stream" /\ lock = u
       /\ pc[t] = "idle"
       /\ out[t].op = "get_rate_limits_snapshot" /\ out[t].kind = "return"
       /\ out[t].rate_limits = ("A" :> RateLimits("A", 1))

\* C19: a /status command that arrives while a turn is in flight is answered
\* without waiting for the turn: it is never at the main lock while the turn
\* holds it. The handler calls read_rate_limits(), which takes the main lock,
\* so this fails.
C19_StatusNeverWaits ==
    \A t, u \in Threads :
       pc[t] = "status_wait" /\ pc[u] = "ask_stream" => lock # u

\* The request or the turn of thread t is waiting for messages.
WaitsForMessages(t) == pc[t] \in {"req_read", "ask_stream"}

\* The call of thread t has ended by raising a not-running or an EOF error.
RaisedLiveness(t) ==
    /\ pc[t] = "idle"
    /\ out[t].kind = "raise"
    /\ out[t].err.kind \in {"not_running", "eof"}

\* The step that ends a wait on a subprocess that has exited, before or
\* during the step, raises one of the two errors and has read no message.
C20_Action ==
    \A t \in Threads :
       /\ WaitsForMessages(t)
       /\ pc'[t] # pc[t]
       /\ (proc' = 0 \/ proc' \notin alive')
       => /\ pc'[t] = "idle"
          /\ out'[t].kind = "raise"
          /\ out'[t].err.kind \in {"not_running", "eof"}
          /\ loc'[t].msg = loc[t].msg

\* A wait on a subprocess that has exited comes to an end by raising.
C20_Ends ==
    \A t \in Threads :
       (WaitsForMessages(t) /\ (proc = 0 \/ proc \notin alive)) ~> RaisedLiveness(t)

\* C20: when the subprocess is terminated while a request or a turn waits
\* for messages, the wait eventually ends by raising a not-running or an
\* unexpected-EOF error: it returns no reply and does not wait forever.
C20_TerminationEndsWaits == C20_Ends /\ [][C20_Action]_vars

\* C20 happens: the turn/start of one thread was sent, the other thread's
\* stop() terminated the subprocess, and the ask raised the not-running error.
C20_Witness ==
    /\ scenario = "kill"
    /\ calls = 3
    /\ Len(sent) = 4
    /\ pc["t1"] = "idle"
    /\ out["t1"] = Raised("ask", NotRunningErr)
    /\ pc["t2"] = "idle"
    /\ out["t2"] = Returned("stop")
    /\ loc["t2"].terminates = 1

\* C21: when the subprocess has died while run_bot polls, after a start()
\* that succeeded, run_bot comes to call start() again.
C21_DeathLeadsToRestart ==
    (bot.sup = "polling" /\ proc \notin alive) ~> (bot.sup = "start")

\* The handler of a text message or of /start gets the outcome of ask.
AskOutcomeHandled == bot.stage = "ask" /\ bot'.stage # "ask"

\* When ask has raised, the handler sends the error reply and nothing else,
\* ends, and leaves run_bot and the threads where they are.
C22_Action ==
    AskOutcomeHandled /\ out["t2"].kind = "raise"
    => /\ out["t2"].err.kind \in {"not_running", "eof", "remote", "turn", "no_thread",
                                  "no_turn_id"}
       /\ bot'.replies = <<"error">>
       /\ bot'.stage = "idle"
       /\ bot'.sup = bot.sup
       /\ pc' = pc

\* An error reply is the only reply to its message.
C22_State ==
    (\E i \in DOMAIN bot.replies : bot.replies[i] = "error") => Len(bot.replies) = 1

\* C22: an exception of ask() is caught by the handler of the message and
\* becomes exactly one 'app-server error' reply; the handler ends without
\* passing it on and sends neither an answer nor a raw message.
C22_AskErrorIsOneReply == []C22_State /\ [][C22_Action]_vars

\* C22 happens: with verbose on, a turn that was started and had read a
\* message nobody handles (the first of the two lines it read) ended with an
\* exception, and the one reply to the text message is the error.
C22_Witness ==
    /\ bot.update.kind = "text"
    /\ bot.stage = "idle"
    /\ bot.verbose
    /\ Len(sent) = 4
    /\ sent[4].method = "turn/start"
    /\ lines = 5
    /\ bot.replies = <<"error">>

\* C23: an update from a chat other than the allowed one starts no call of
\* the client and lets none go on, sends no message, and changes neither
\* the verbose flag nor the pending-model-input flag.
C23_OnlyAllowedChat ==
    [][bot'.update.kind # "none" /\ bot'.update.chat # "c1"
       => /\ calls' = calls
          /\ sent' = sent
          /\ pc' = pc
          /\ model' = model
          /\ bot'.stage = "idle"
          /\ bot'.verbose = bot.verbose
          /\ bot'.pending = bot.pending
          /\ bot'.replies \in {<<>>, <<"query_answer">>}]_vars

\* C23 happens: a text message from another chat was handled while the
\* verbose flag and the pending-model-input flag were set.
C23_Witness ==
    /\ bot.update = [NoUpdate EXCEPT !.kind = "text", !.chat = "c2", !.data = "words"]
    /\ bot.stage = "idle"
    /\ bot.verbose
    /\ bot.pending
    /\ bot.replies = <<>>

\* The entries the loader is to return from the table with the keys keys,
\* each named after that table.
Entries(keys, table) == [k \in CONFIG_KEYS \cap keys |-> table]

\* As stated: the loader returns the known entries of the [telecodex] table
\* of a file that has one and those of the root table of every other file,
\* and the empty mapping for a missing file.
C29_AsStated ==
    LET f == bot.config
    IN bot.sup = "loaded" /\ f.parses
       => /\ bot.settings.kind = "return"
          /\ bot.settings.values =
               IF ~f.exists THEN Entries({}, "top")
               ELSE IF f.section = "table" THEN Entries(f.sec, "sec")
               ELSE Entries(f.top, "top")

\* C29: the loader returns exactly the entries with a known key, from the
\* [telecodex] table when the file has one and from the root table when the
\* file has nothing under 'telecodex'; no unknown key is returned, the root
\* table is ignored when the section exists, a missing file gives the empty
\* mapping; a 'telecodex' that is not a table is refused with an error.
C29_LoadedSettings ==
    LET f == bot.config
    IN bot.sup = "loaded" /\ f.parses
       => /\ bot.settings.kind = IF f.exists /\ f.section = "other" THEN "raise"
                                 ELSE "return"
          /\ "unknown_key" \notin DOMAIN bot.settings.values
          /\ bot.settings.kind = "return"
             => bot.settings.values =
                  IF ~f.exists THEN Entries({}, "top")
                  ELSE IF f.section = "table" THEN Entries(f.sec, "sec")
                  ELSE Entries(f.top, "top")

\* C29 happens: a file whose section and root table both hold known and
\* unknown keys was loaded, and only the section's known keys came back.
C29_Witness ==
    /\ bot.sup = "loaded"
    /\ bot.config.section = "table"
    /\ bot.config.top = {"telegram_bot_token", "allowed_chat_id", "unknown_key"}
    /\ bot.config.sec = {"codex_model", "unknown_key"}
    /\ bot.settings.kind = "return"
    /\ DOMAIN bot.settings.values = {"codex_model"}

\* C24: _read_message never fails because of what a line holds: a call that
\* raised did so for the state of the subprocess or of its stream, for the
\* error of its response or of its turn, or for an id missing from the client
\* or the result, never for an exception of reading a line.
C24_NeverFailsOnContent ==
    \A t \in Threads :
       out[t].kind = "raise" =>
          out[t].err.kind \in {"launch", "not_running", "eof", "remote", "turn",
                               "no_thread", "no_thread_id", "no_turn_id"}
\* C25: a read that meets the end of the subprocess's output raises, and which
\* error depends on the subprocess at that moment: the not-running error when
\* it has exited, the unexpected-EOF error when it still runs. The step
\* returns no message, feeds no tracker and ends the call.
C25_Action ==
    \A t \in Threads :
       /\ WaitsForMessages(t)
       /\ out'[t] # out[t]
       /\ out'[t].err.kind \in {"not_running", "eof"}
       => /\ out'[t].kind = "raise"
          /\ pc'[t] = "idle"
          /\ proc' = proc
          /\ (out'[t].err.kind = "not_running") = (proc \notin alive')
          /\ (out'[t].err.kind = "eof") = (proc \in alive')
          /\ loc'[t] = loc[t]
          /\ rate_limits_by_id' = rate_limits_by_id
          /\ latest_token_usage' = latest_token_usage

C25_EofRechecksLiveness == [][C25_Action]_vars

\* C25 happens: a turn met the end of the output of a subprocess that still
\* runs and raised the unexpected-EOF error.
C25_Witness ==
    \E t \in Threads :
       /\ pc[t] = "idle"
       /\ out[t] = Raised("ask", EofErr)
       /\ proc \in alive
       /\ lines > 0

\* C26: _send on a client whose subprocess was never started or has exited
\* raises the not-running error and writes nothing: the step that leaves the
\* send of a request or of the initialized notification in such a state ends
\* the call with that error and leaves the subprocess's input as it was.
C26_Action ==
    \A t \in Threads :
       /\ pc[t] \in {"req_send", "start_notify"}
       /\ pc'[t] # pc[t]
       /\ (proc = 0 \/ proc \notin alive)
       => /\ pc'[t] = "idle"
          /\ out'[t].kind = "raise"
          /\ out'[t].err.kind = "not_running"
          /\ sent' = sent

C26_SendNeedsSubprocess == [][C26_Action]_vars

\* C26 happens: list_models() on a client that was never started took an id,
\* raised the not-running error and wrote nothing.
C26_Witness ==
    \E t \in Threads :
       /\ pc[t] = "idle"
       /\ out[t] = Raised("list_models", NotRunningErr)
       /\ proc = 0
       /\ spawned = 0
       /\ next_id = 2
       /\ sent = <<>>

\* The step of thread t returns a message from _read_message to the request
\* or the turn that waits: the thread moved, a line was read and no error of
\* the read was raised.
ReturnsMessage(t) ==
    /\ WaitsForMessages(t)
    /\ loc'[t] # loc[t] \/ pc'[t] # pc[t]
    /\ lines' > lines
    /\ out'[t].err.kind \notin {"not_running", "eof", "type"}

\* C27: both trackers have been applied to a message by the time the request
\* or the turn acts on it, whatever it then does with it: in the step that
\* reads a well-formed token count the latest usage becomes its info, and in
\* the step that reads a well-formed rate-limit update the entry of its limit
\* becomes its object and the other entries stay, also when the step ends
\* the call by returning or raising. (The answer to account/rateLimits/read
\* replaces the mapping afterwards.)
C27_Action ==
    \A t \in Threads :
       ReturnsMessage(t) =>
          LET m == loc'[t].msg
              p == m.params
          IN /\ m.raw = "obj"
             /\ m.method = "codex/event/token_count"
                  /\ p.isObj /\ p.msgIsObj /\ p.info.isObj
                => latest_token_usage' = p.info
             /\ m.method = "account/rateLimits/updated"
                  /\ p.isObj /\ p.rateLimits.isObj
                  /\ ~(loc[t].method = "account/rateLimits/read" /\ m.id = loc[t].req_id)
                => /\ DOMAIN rate_limits_by_id' =
                         DOMAIN rate_limits_by_id \cup {p.rateLimits.limitId}
                   /\ rate_limits_by_id'[p.rateLimits.limitId] = p.rateLimits
                   /\ \A k \in DOMAIN rate_limits_by_id \ {p.rateLimits.limitId} :
                         rate_limits_by_id'[k] = rate_limits_by_id[k]

C27_TrackedBeforeDispatch == [][C27_Action]_vars

\* C27 happens: list_models() raised on an error response that is a token
\* count as well, and the usage it carried is the latest one.
C27_Witness ==
    \E t \in Threads :
       /\ pc[t] = "idle"
       /\ out[t].op = "list_models"
       /\ out[t].kind = "raise"
       /\ out[t].err.kind = "remote"
       /\ loc[t].msg.method = "codex/event/token_count"
       /\ loc[t].msg.id = loc[t].req_id
       /\ latest_token_usage = loc[t].msg.params.info
       /\ latest_token_usage # NoInfo

\* The step of thread t ends the thread/start request of a start() on a
\* client that has no thread id yet, by reading a message that _request
\* takes for the response and that carries no error.
StartAnswered(t) ==
    /\ pc[t] = "req_read"
    /\ loc[t].op = "start"
    /\ loc[t].method = "thread/start"
    /\ thread_id = ""
    /\ pc'[t] = "idle"
    /\ out'[t].err.kind \notin {"not_running", "eof", "type", "remote"}

\* C28: on a client without a thread id, start() completes normally exactly
\* when the result of the thread/start response holds a thread with a
\* non-empty id, which becomes thread_id; when the id is missing or empty,
\* start() raises and thread_id stays unassigned. A start() returns in no
\* other step.
C28_Action ==
    \A t \in Threads :
       /\ StartAnswered(t) =>
             LET m == loc'[t].msg
                 id == IF m.result.kind = "obj" THEN m.result.threadId ELSE ""
             IN /\ m.id = loc[t].req_id
                /\ m.error.kind = "absent"
                /\ id # "" => out'[t] = Returned("start") /\ thread_id' = id
                /\ id = "" => /\ out'[t].kind = "raise"
                              /\ out'[t].err.kind = "no_thread_id"
                              /\ thread_id' = ""
       /\ out'[t] # out[t] /\ out'[t].kind = "return" /\ out'[t].op = "start"
             => /\ pc[t] = "req_read" /\ loc[t].method = "thread/start"
                /\ loc'[t].msg.id = loc[t].req_id
                /\ loc'[t].msg.result.kind = "obj"
                /\ loc'[t].msg.result.threadId # ""
                /\ thread_id' = loc'[t].msg.result.threadId

C28_StartNeedsThreadId == [][C28_Action]_vars

\* C28 happens: the first start() of a client read a thread/start response
\* without a result, raised, and left the client without a thread id.
C28_Witness ==
    \E t \in Threads :
       /\ pc[t] = "idle"
       /\ spawned = 1
       /\ out[t].op = "start"
       /\ out[t].kind = "raise"
       /\ out[t].err.kind = "no_thread_id"
       /\ loc[t].method = "thread/start"
       /\ loc[t].msg.id = loc[t].req_id
       /\ loc[t].msg.result.kind = "absent"
       /\ thread_id = ""

\* C30: only an event of the current turn ends the turn. A turn/completed
\* whose turn id is another, or that holds no turn, and an error addressed to
\* another turn leave the loop running and the fallback message, the
\* recorded turn error and the chunks as they were; and a step that reads a
\* message and ends the turn has read the completion of this turn or an
\* error of this turn that is not retried.
C30_Action ==
    \A t \in Threads :
       pc[t] = "ask_stream" /\ ReturnsMessage(t) =>
          LET m == loc'[t].msg
              p == m.params
              foreign == \/ m.method = "turn/completed"
                            /\ (~p.isObj \/ ~p.turn.isObj \/ p.turn.id # loc[t].turn_id)
                         \/ m.method = "error"
                            /\ (~p.isObj \/ p.turnId # loc[t].turn_id)
          IN /\ foreign => /\ pc'[t] = "ask_stream"
                           /\ out'[t] = out[t]
                           /\ loc'[t].fallback_final = loc[t].fallback_final
                           /\ loc'[t].turn_error_message = loc[t].turn_error_message
                           /\ loc'[t].chunks = loc[t].chunks
             /\ pc'[t] # "ask_stream" =>
                   /\ p.isObj
                   /\ \/ m.method = "turn/completed"
                         /\ p.turn.isObj /\ p.turn.id = loc[t].turn_id
                      \/ m.method = "error"
                         /\ p.turnId = loc[t].turn_id /\ p.willRetry = "false"

C30_OnlyOwnEventsEndTurn == [][C30_Action]_vars

\* C30 happens: the turn tn1 has read the fatal error and then the completion
\* of the turn tn2, is still streaming, and has neither a fallback message nor
\* a turn error.
C30_Witness ==
    \E t \in Threads :
       /\ pc[t] = "ask_stream"
       /\ loc[t].turn_id = "tn1"
       /\ loc[t].msg = Completed("tn2", "completed", <<"g">>, AbsentErr)
       /\ \E i \in 1..Len(loc[t].unprocessed) :
             loc[t].unprocessed[i] = TurnError("tn2", "false", ErrMsg(<<"e3">>))
       /\ loc[t].fallback_final = <<>>
       /\ loc[t].turn_error_message = <<>>

\* The methods the verbosity predicate rejects, among those on the wire.
Rejected(method) ==
    method \in {"item/agentMessage/delta", "item/reasoning/textDelta",
                "codex/event/agent_message_delta", "turn/completed",
                "account/rateLimits/updated", "codex/event/token_count",
                "thread/tokenUsage/updated"}

\* The streaming loop of thread t reads a message that is neither a delta nor
\* an error of its turn nor the completion of its turn.
ReadsUnconsumed(t) ==
    /\ pc[t] = "ask_stream"
    /\ ReturnsMessage(t)
    /\ LET m == loc'[t].msg
           p == m.params
       IN ~(/\ p.isObj
            /\ \/ m.method \in {"item/agentMessage/delta", "error"}
                  /\ p.turnId = loc[t].turn_id
               \/ m.method = "turn/completed"
                  /\ (IF p.turn.isObj THEN p.turn.id ELSE "") = loc[t].turn_id)

\* C31 as stated: an unconsumed message of the streaming phase is appended to
\* the unprocessed list exactly when the verbosity predicate accepts it.
C31_AppendedIffNoteworthy ==
    [][\A t \in Threads :
          ReadsUnconsumed(t) =>
             loc'[t].unprocessed =
                IF loc'[t].msg.method = "" \/ ~Rejected(loc'[t].msg.method)
                THEN Append(loc[t].unprocessed, loc'[t].msg)
                ELSE loc[t].unprocessed]_vars

\* C31: an unconsumed message of the streaming phase is appended to the
\* unprocessed list exactly when it has no method, or its params are not an
\* object, or the verbosity predicate accepts it; any other is not appended.
C31_AppendedIffMalformedOrNoteworthy ==
    [][\A t \in Threads :
          ReadsUnconsumed(t) =>
             loc'[t].unprocessed =
                IF \/ loc'[t].msg.method = ""
                   \/ ~loc'[t].msg.params.isObj
                   \/ ~Rejected(loc'[t].msg.method)
                THEN Append(loc[t].unprocessed, loc'[t].msg)
                ELSE loc[t].unprocessed]_vars

\* C31 happens: the turn has appended a turn/completed without params, which
\* the predicate rejects, and has passed over a notification it rejects.
C31_Witness ==
    \E t \in Threads :
       /\ pc[t] = "ask_stream"
       /\ loc[t].unprocessed = <<[ObjMsg EXCEPT !.method = "turn/completed"]>>
       /\ loc[t].msg = Notif("item/reasoning/textDelta")

\* The turn/start request of ask(), of thread t, reads a message that does
\* not answer it.
AskRequestPassesOver(t) ==
    /\ pc[t] = "req_read"
    /\ loc[t].op = "ask"
    /\ ReturnsMessage(t)
    /\ loc'[t].msg.id # loc[t].req_id

\* C32: the verbosity predicate is true exactly for a message without a
\* string method and for one whose method neither contains 'delta' in any
\* case nor is one of the five routine methods. _request, which appends to
\* the list of ask() the messages it passes over when the predicate is true,
\* appends those and no others.
C32_NoteworthyPredicate ==
    [][\A t \in Threads :
          AskRequestPassesOver(t) =>
             loc'[t].unprocessed =
                IF loc'[t].msg.method = "" \/ ~Rejected(loc'[t].msg.method)
                THEN Append(loc[t].unprocessed, loc'[t].msg)
                ELSE loc[t].unprocessed]_vars

\* C32 happens: while ask() waits for the answer to turn/start it has
\* appended a notification and passed over one whose method has 'Delta' in it.
C32_Witness ==
    \E t \in Threads :
       /\ pc[t] = "req_read"
       /\ loc[t].op = "ask"
       /\ loc[t].unprocessed = <<Notif("item/started")>>
       /\ loc[t].msg = Notif("item/reasoning/textDelta")

\* The ask() of thread t has raised on a fatal error of its turn whose
\* payload is an object.
RaisedOnObjectPayload(t) ==
    /\ pc[t] = "idle"
    /\ out[t].op = "ask"
    /\ out[t].kind = "raise"
    /\ out[t].err.kind = "turn"
    /\ loc[t].msg.method = "error"
    /\ loc[t].msg.params.error.kind = "dict"

C34_EarlyEventsKept ==
    [][\A t \in Threads :
          /\ pc[t] = "req_read"
          /\ loc[t].op = "ask"
          /\ loc'[t].turn_id # ""
          /\ loc'[t].msg.id = loc[t].req_id
          /\ loc[t].msg.params.isObj
          => /\ loc[t].msg.method = "item/agentMessage/delta"
                  /\ loc[t].msg.params.turnId = loc'[t].turn_id
                  /\ loc[t].msg.params.deltaIsStr
                => loc'[t].chunks = <<loc[t].msg.params.delta>>
             /\ loc[t].msg.method = "turn/completed"
                  /\ loc[t].msg.params.turn.isObj
                  /\ loc[t].msg.params.turn.id = loc'[t].turn_id
                => pc'[t] # "ask_stream"]_vars

\* C35: an ask() that follows a start() that raised after launching its
\* subprocess (initialize or thread/start failed, or no thread id came
\* back) fails at once, with the no-thread or the not-running error, and so
\* sends no turn/start, whether or not an earlier start() had succeeded.
C35_NoTurnAfterFailedStart ==
    [][\A t \in Threads :
          /\ pc[t] = "idle"
          /\ out[t].op = "start"
          /\ out[t].kind = "raise"
          /\ out[t].err.kind # "launch"
          /\ loc'[t].op = "ask"
          /\ calls' = calls + 1
          => /\ pc'[t] = "idle"
             /\ out'[t].kind = "raise"
             /\ out'[t].err.kind \in {"no_thread", "not_running"}]_vars

\* C36: after start() the stored rate limits follow the stream: once an
\* entry holds the data of one line, no step puts the data of an earlier
\* line in its place (in the "refresh" run the data of line n is the
\* number n).
C36_StoredInStreamOrder ==
    [][scenario = "refresh" /\ thread_id # "" =>
         \A k \in DOMAIN rate_limits_by_id \cap DOMAIN rate_limits_by_id' :
            rate_limits_by_id'[k].val >= rate_limits_by_id[k].val]_vars

\* C37: a thread that is in no call of the client does not hold the main
\* lock: every call that took it, ended normally or by an exception, has
\* released it, and the next call finds it free or held by a call in
\* progress.
C37_LockReleasedOnExit == \A t \in Threads : pc[t] = "idle" => lock # t

\* C37 happens: ask() took the lock, sent turn/start, found no turn id in the
\* answer and raised, and the lock is free.
C37_Witness ==
    \E t \in Threads :
       /\ pc[t] = "idle"
       /\ out[t].op = "ask" /\ out[t].kind = "raise"
       /\ out[t].err.kind = "no_turn_id"
       /\ \E i \in 1..Len(sent) : sent[i].method = "turn/start"
       /\ lock = NoThread

\* C38: no step of stop() or of start() changes the selected model, and none
\* changes the tracked rate limits or the latest token usage unless it reads
\* a line of the subprocess start() has spawned (in the "restart" run each
\* subprocess writes its own number), so what was tracked from an earlier
\* subprocess stays until then.
C38_Action ==
    \A t \in Threads :
       /\ loc'[t].op \in {"start", "stop"}
       /\ pc'[t] # pc[t] \/ loc'[t] # loc[t] \/ out'[t] # out[t]
       => /\ model' = model
          /\ lines' = lines =>
               /\ rate_limits_by_id' = rate_limits_by_id
               /\ latest_token_usage' = latest_token_usage
          /\ scenario = "restart" =>
               /\ \A k \in DOMAIN rate_limits_by_id' :
                     \/ /\ k \in DOMAIN rate_limits_by_id
                        /\ rate_limits_by_id'[k] = rate_limits_by_id[k]
                     \/ rate_limits_by_id'[k].val = proc
               /\ DOMAIN rate_limits_by_id \subseteq DOMAIN rate_limits_by_id'
               /\ \/ latest_token_usage' = latest_token_usage
                  \/ latest_token_usage'.val = proc

C38_RestartKeepsSnapshots == [][C38_Action]_vars

\* C38 happens: the second start() has returned, and the rate limits and the
\* token usage are those the first subprocess wrote.
C38_Witness ==
    \E t \in Threads :
       /\ pc[t] = "idle"
       /\ out[t].op = "start" /\ out[t].kind = "return"
       /\ proc = 2 /\ alive = {2}
       /\ rate_limits_by_id = ("A" :> RateLimits("A", 1))
       /\ latest_token_usage = Info(1)
       /\ model = "m1"

\* Thread t begins and ends a call of op in this step.
CallsAtOnce(t, op) ==
    /\ calls' = calls + 1
    /\ pc[t] = "idle" /\ pc'[t] = "idle"
    /\ loc'[t].op = op
    /\ out'[t].op = op /\ out'[t].kind = "return"
    /\ loc'[t] # loc[t] \/ out'[t] # out[t]

\* C39: a turn/start request carries the client's model as it is when the
\* request is sent, which is under the lock ask() took; while ask() holds
\* the lock no step changes the model, so a set_model() acts before the lock
\* is taken or after it is released and the turn has ended; set_model(m)
\* makes m the model and get_model() returns the model.
C39_Action ==
    /\ Len(sent') = Len(sent) + 1 /\ sent'[Len(sent')].method = "turn/start"
         => /\ sent'[Len(sent')].model = model
            /\ \E t \in Threads : lock = t /\ loc[t].op = "ask"
    /\ \A t \in Threads :
          /\ lock = t /\ loc[t].op = "ask" => model' = model
          /\ CallsAtOnce(t, "set_model") =>
                lock = NoThread /\ lock' = NoThread /\ model' = loc'[t].model
          /\ CallsAtOnce(t, "get_model") =>
                lock = NoThread /\ lock' = NoThread /\ out'[t].model = model
    /\ model' # model => \E t \in Threads : CallsAtOnce(t, "set_model")

C39_ModelOfTurn == [][C39_Action]_vars

\* C39 happens: one thread has set the model m2 and the other has then begun
\* a turn: its turn/start carries m2 and the turn is in flight under the lock.
C39_Witness ==
    \E t, u \in Threads :
       /\ pc[t] = "ask_stream" /\ lock = t
       /\ out[u].op = "set_model" /\ loc[u].model = "m2"
       /\ model = "m2"
       /\ sent[Len(sent)].method = "turn/start"
       /\ sent[Len(sent)].model = "m2"

\* The application hands the update u of the allowed chat to its handler.
Handles(u) ==
    /\ bot.sup = "polling" /\ bot'.sup = "polling"
    /\ bot.stage = "idle"
    /\ bot' # bot
    /\ bot'.update = [u EXCEPT !.chat = "c1"]

\* What C40 says of each step; restarts: whether the end of run_polling, after
\* which run_bot builds a new application, counts among the steps that
\* clear the flag.
C40_Step(restarts) ==
    LET words == [NoUpdate EXCEPT !.kind = "text", !.data = "words"]
        press(d) == [NoUpdate EXCEPT !.kind = "callback", !.data = d]
    IN /\ Handles(words) =>
            /\ bot'.stage = IF bot.pending THEN "set_model" ELSE "ask"
            /\ bot'.pending = bot.pending
       /\ bot.stage = "set_model" =>
            /\ sent' = sent
            /\ \A t \in Threads : loc'[t].op \in {"", "set_model"}
            /\ bot'.stage # "set_model" =>
                 /\ bot'.stage = "idle"
                 /\ ~bot'.pending
                 /\ out["t2"].op = "set_model" /\ out["t2"].kind = "return"
                 /\ model = bot.update.data
       /\ Handles(press("model:free_text")) => bot'.pending /\ bot'.stage = "idle"
       /\ Handles(press("model:cancel")) => ~bot'.pending /\ bot'.stage = "idle"
       /\ bot.stage = "cb_set" /\ bot'.stage # "cb_set" =>
            /\ ~bot'.pending
            /\ out["t2"].op = "set_model" /\ model = bot.update.arg
       /\ ~bot.pending /\ bot'.pending => Handles(press("model:free_text"))
       /\ bot.pending /\ ~bot'.pending =>
            \/ bot.stage \in {"set_model", "cb_set"} /\ bot'.stage = "idle"
            \/ Handles(press("model:cancel"))
            \/ restarts /\ bot.sup = "polling" /\ bot'.sup # "polling"

\* As stated: once the model:free_text button has set the flag, it stays set
\* until model:cancel, a successful model:set: or the next text message of
\* the allowed chat, which set_model consumes.
C40_AsStated == [][C40_Step(FALSE)]_vars

\* C40: in one run of run_polling, the model:free_text button of the allowed
\* chat sets the flag, which stays set until model:cancel, a successful
\* model:set: or the next text message of the allowed chat that is not
\* blank; that message goes to set_model and not to ask(), the flag is
\* cleared, and a text message that finds the flag clear is sent as a turn.
\* The end of run_polling clears the flag as well.
C40_PendingModelInput == [][C40_Step(TRUE)]_vars

\* C40 happens: with the flag set by the button, the handler of the text
\* message that followed has called set_model, and no turn was started.
C40_Witness ==
    /\ bot.stage = "set_model"
    /\ bot.pending
    /\ bot.update = [NoUpdate EXCEPT !.kind = "text", !.chat = "c1", !.data = "words"]
    /\ pc["t2"] = "idle"
    /\ out["t2"].op = "set_model" /\ out["t2"].kind = "return"
    /\ \A i \in 1..Len(sent) : sent[i].method # "turn/start"

====
